---- MODULE Spec2Model ----
(***************************************************************************)
(* Hexcel (src/main.py): a spreadsheet on a hexagonal lattice.  The model *)
(* covers the formula engine, the sparse cell store (hex_items), the      *)
(* viewport virtualizer (update_visible_items), the selection / drag-fill *)
(* controller and the inline editor / formula bar.                        *)
(*                                                                         *)
(* A Python str is a sequence of one-character strings; None is the empty *)
(* sequence <<>> and an optional value v is <<v>>.  A Python float is an  *)
(* exact rational <<numerator, denominator>> in lowest terms.             *)
(***************************************************************************)
EXTENDS Integers, Sequences, FiniteSets, TLC

None == <<>>

\* ------------------------------------------------------------ characters

UPPER == <<"A","B","C","D","E","F","G","H","I","J","K","L","M",
           "N","O","P","Q","R","S","T","U","V","W","X","Y","Z">>
LOWER == <<"a","b","c","d","e","f","g","h","i","j","k","l","m",
           "n","o","p","q","r","s","t","u","v","w","x","y","z">>
DIGITS == <<"0","1","2","3","4","5","6","7","8","9">>

UpperSet == {UPPER[i] : i \in 1..26}
LowerSet == {LOWER[i] : i \in 1..26}
DigitSet == {DIGITS[i] : i \in 1..10}

IndexOf(seq, ch) == CHOOSE i \in 1..Len(seq) : seq[i] = ch

\* ord(ch) - 64 for an upper-case letter
LetterOrd(ch) == IndexOf(UPPER, ch)

\* int(ch) for a decimal digit
DigitVal(ch) == IndexOf(DIGITS, ch) - 1

\* str.upper(), one character
UpperChar(ch) == IF ch \in LowerSet THEN UPPER[IndexOf(LOWER, ch)] ELSE ch

\* str.upper()
Upper(s) == [i \in 1..Len(s) |-> UpperChar(s[i])]

SetMin(S) == CHOOSE x \in S : \A y \in S : x <= y
SetMax(S) == CHOOSE x \in S : \A y \in S : x >= y

\* str.strip(): the whitespace of the model's texts is the blank
Strip(s) ==
    LET keep == {i \in 1..Len(s) : s[i] # " "}
    IN  IF keep = {} THEN <<>> ELSE SubSeq(s, SetMin(keep), SetMax(keep))

\* s.startswith(ch)
StartsWith(s, ch) == Len(s) >= 1 /\ s[1] = ch

\* int(s) for a string of decimal digits
RECURSIVE ParseDigits(_, _)
ParseDigits(s, acc) ==
    IF s = <<>> THEN acc ELSE ParseDigits(Tail(s), acc * 10 + DigitVal(Head(s)))

\* str(n) for an integer n
RECURSIVE NatStr(_)
NatStr(n) ==
    IF n < 10 THEN <<DIGITS[n + 1]>>
    ELSE NatStr(n \div 10) \o <<DIGITS[(n % 10) + 1]>>

IntStr(n) == IF n < 0 THEN <<"-">> \o NatStr(-n) ELSE NatStr(n)

\* -------------------------------------------------------------- floats

Abs(n) == IF n < 0 THEN -n ELSE n
IntMax(a, b) == IF a >= b THEN a ELSE b
IntMin(a, b) == IF a <= b THEN a ELSE b

RECURSIVE GCD(_, _)
GCD(a, b) == IF b = 0 THEN a ELSE GCD(b, a % b)

\* the rational n/d in lowest terms, d > 0
Reduce(n, d, g) == <<n \div g, d \div g>>

Rat(n, d) ==
    IF d < 0 THEN Reduce(-n, -d, GCD(Abs(n), Abs(d)))
    ELSE Reduce(n, d, GCD(Abs(n), Abs(d)))

RatAdd(p, q) == Rat(p[1] * q[2] + q[1] * p[2], p[2] * q[2])
RatMul(p, q) == Rat(p[1] * q[1], p[2] * q[2])
RatLess(p, q) == p[1] * q[2] < q[1] * p[2]
RatAbs(p) == <<Abs(p[1]), p[2]>>

\* float.is_integer()
is_integer(p) == p[2] = 1

\* the digits after the decimal point of rem/den, at most FracDigits of them
FracDigits == 6

RECURSIVE FracStr(_, _, _)
FracStr(rem, den, k) ==
    IF rem = 0 \/ k = 0 THEN <<>>
    ELSE <<DIGITS[((rem * 10) \div den) + 1]>> \o FracStr((rem * 10) % den, den, k - 1)

\* str(x) for a float x that is not integral.  Python writes the shortest
\* digits that read back as x; the model writes the exact quotient cut after
\* FracDigits digits.
FloatStr(p) ==
    (IF p[1] < 0 THEN <<"-">> ELSE <<>>)
        \o NatStr(Abs(p[1]) \div p[2]) \o <<".">>
        \o FracStr(Abs(p[1]) % p[2], p[2], FracDigits)

\* str(int(x)) if x.is_integer() else str(x)
ResultStr(p) == IF is_integer(p) THEN IntStr(p[1]) ELSE FloatStr(p)

\* 10 ** n
RECURSIVE Pow10(_)
Pow10(n) == IF n = 0 THEN 1 ELSE 10 * Pow10(n - 1)

AllDigits(s) == \A i \in 1..Len(s) : s[i] \in DigitSet

\* the position of the first "." of u, Len(u) + 1 when it has none
DotIndex(u) ==
    LET dots == {i \in 1..Len(u) : u[i] = "."}
    IN  IF dots = {} THEN Len(u) + 1 ELSE SetMin(dots)

\* digits ip before and fp after the decimal point
float_parts(ip, fp, neg) ==
    IF Len(ip) + Len(fp) >= 1 /\ AllDigits(ip) /\ AllDigits(fp)
    THEN <<Rat((IF neg THEN -1 ELSE 1) * ParseDigits(ip \o fp, 0), Pow10(Len(fp)))>>
    ELSE None

float_at(u, dot, neg) ==
    float_parts(SubSeq(u, 1, dot - 1), SubSeq(u, dot + 1, Len(u)), neg)

float_signed(t) ==
    IF Len(t) >= 1 /\ t[1] \in {"+", "-"}
    THEN float_at(Tail(t), DotIndex(Tail(t)), t[1] = "-")
    ELSE float_at(t, DotIndex(t), FALSE)

\* float(s): <<x>> for the float parsed, None for ValueError.  The texts of
\* the model spell numbers as [sign] digits [. digits] (no exponent, inf, nan).
float(s) == float_signed(Strip(s))

\* ----------------------------------------------------- addresses (A1)

\* the column written in plain base 26, A for the digit 0
RECURSIVE column_name_base26(_, _)
column_name_base26(col_index, result) ==
    IF col_index \div 26 = 0
    THEN <<UPPER[(col_index % 26) + 1]>> \o result
    ELSE column_name_base26(col_index \div 26,
                            <<UPPER[(col_index % 26) + 1]>> \o result)

RECURSIVE column_name_loop(_, _)
column_name_loop(col_index, result) ==
    IF (col_index \div 26) - 1 < 0
    THEN <<UPPER[(col_index % 26) + 1]>> \o result
    ELSE column_name_loop((col_index \div 26) - 1,
                          <<UPPER[(col_index % 26) + 1]>> \o result)

column_to_excel_name(col_index) ==
    IF col_index < 0 THEN <<>> ELSE column_name_loop(col_index, <<>>)

RECURSIVE col_index_loop(_, _)
col_index_loop(name, total) ==
    IF name = <<>> THEN total - 1
    ELSE IF Head(name) \notin UpperSet THEN -1
    ELSE col_index_loop(Tail(name), total * 26 + LetterOrd(Head(name)))

excel_col_to_index(name) == col_index_loop(Upper(Strip(name)), 0)

\* the length of the longest prefix of s made of upper-case letters
LetterPrefix(s) ==
    LET nonl == {i \in 1..Len(s) : s[i] \notin UpperSet}
    IN  IF nonl = {} THEN Len(s) ELSE SetMin(nonl) - 1

cell_re_split(s, k) ==
    IF k >= 1 /\ k < Len(s) /\ AllDigits(SubSeq(s, k + 1, Len(s)))
    THEN <<SubSeq(s, 1, k), SubSeq(s, k + 1, Len(s))>>
    ELSE None

\* the regular expression ^([A-Z]+)(\d+)$ : <<letters, digits>> or None
cell_re_match(s) == cell_re_split(s, LetterPrefix(s))

cell_checked(row, col) == IF row >= 0 /\ col >= 0 THEN <<row, col>> ELSE None

\* the row numeral taken as the row itself
cell_of_match_row_as_written(m) ==
    IF m = None THEN None
    ELSE cell_checked(ParseDigits(m[2], 0), excel_col_to_index(m[1]))

cell_of_match(m) ==
    IF m = None THEN None
    ELSE cell_checked(ParseDigits(m[2], 0) - 1, excel_col_to_index(m[1]))

\* <<row, col>> or None
parse_cell_ref(ref) == cell_of_match(cell_re_match(Upper(Strip(ref))))

\* ------------------------------------------------------- formula engine
\* `items` is the store hex_items restricted to its HexItem entries: a
\* function from <<row, col>> to the item's record.

IsIdentStart(ch) == ch \in UpperSet \/ ch \in LowerSet \/ ch = "_"
IsIdentChar(ch) == IsIdentStart(ch) \/ ch \in DigitSet

\* the length of the longest prefix of body made of identifier characters
IdentPrefix(body) ==
    LET nonid == {i \in 1..Len(body) : ~IsIdentChar(body[i])}
    IN  IF nonid = {} THEN Len(body) ELSE SetMin(nonid) - 1

\* the first position after k that holds no blank, Len(body) + 1 when none
SkipBlanks(body, k) ==
    LET nonsp == {i \in (k + 1)..Len(body) : body[i] # " "}
    IN  IF nonsp = {} THEN Len(body) + 1 ELSE SetMin(nonsp)

call_re_split(body, k, j) ==
    IF /\ Len(body) >= 1
       /\ IsIdentStart(body[1])
       /\ j < Len(body)
       /\ body[j] = "("
       /\ body[Len(body)] = ")"
    THEN <<SubSeq(body, 1, k), SubSeq(body, j + 1, Len(body) - 1)>>
    ELSE None

call_re_at(body, k) == call_re_split(body, k, SkipBlanks(body, k))

\* the regular expression ^([A-Za-z_][A-Za-z0-9_]*)\s*\((.*)\)$ :
\* <<name, inner>> or None
call_re_match(body) == call_re_at(body, IdentPrefix(body))

_get_cell_item(items, row, col) ==
    IF <<row, col>> \in DOMAIN items THEN <<items[<<row, col>>]>> ELSE None

\* float of what the cell displays, not of its raw value
item_float_of_display(it) == IF it = None THEN None ELSE float(it[1].text)

\* float(it.value) of an optional item: None when it is absent or not numeric
item_float(it) == IF it = None THEN None ELSE float(it[1].value)

_is_numeric_cell(items, row, col) == item_float(_get_cell_item(items, row, col)) # None

\* args with the stripped token of buf appended, unless it is empty
flush_token(args, token) == IF token # <<>> THEN Append(args, token) ELSE args

\* the list split at every comma, whatever the depth
RECURSIVE split_every_comma(_, _, _, _)
split_every_comma(s, args, buf, depth) ==
    IF s = <<>> THEN flush_token(args, Strip(buf))
    ELSE IF Head(s) = ","
    THEN split_every_comma(Tail(s), flush_token(args, Strip(buf)), <<>>, depth)
    ELSE split_every_comma(Tail(s), args, Append(buf, Head(s)), depth)

RECURSIVE split_loop(_, _, _, _)
split_loop(s, args, buf, depth) ==
    IF s = <<>> THEN flush_token(args, Strip(buf))
    ELSE IF Head(s) = "(" THEN split_loop(Tail(s), args, Append(buf, "("), depth + 1)
    ELSE IF Head(s) = ")"
    THEN split_loop(Tail(s), args, Append(buf, ")"), IntMax(0, depth - 1))
    ELSE IF Head(s) = "," /\ depth = 0
    THEN split_loop(Tail(s), flush_token(args, Strip(buf)), <<>>, depth)
    ELSE split_loop(Tail(s), args, Append(buf, Head(s)), depth)

_split_args(s) == split_loop(s, <<>>, <<>>, 0)

\* for r in range(r1, r2 + 1): for c in range(c1, c2 + 1)
rect_cells(r1, r2, c1, c2) ==
    [k \in 1..((r2 - r1 + 1) * (c2 - c1 + 1)) |->
        <<r1 + ((k - 1) \div (c2 - c1 + 1)), c1 + ((k - 1) % (c2 - c1 + 1))>>]

\* the rectangle from the first corner's row and column to the second's
expand_corners_in_order(a, b) ==
    IF a = None \/ b = None THEN <<>>
    ELSE rect_cells(a[1], IntMax(a[1], b[1]), a[2], IntMax(a[2], b[2]))

expand_corners(a, b) ==
    IF a = None \/ b = None THEN <<>>
    ELSE rect_cells(IntMin(a[1], b[1]), IntMax(a[1], b[1]),
                    IntMin(a[2], b[2]), IntMax(a[2], b[2]))

\* _expand_range without the min/max of the corners
corners_as_written(a, b) ==
    IF a = None \/ b = None THEN <<>> ELSE rect_cells(a[1], b[1], a[2], b[2])

expand_range_as_written(a_ref, b_ref) ==
    corners_as_written(parse_cell_ref(a_ref), parse_cell_ref(b_ref))

\* the cells of the rectangle spanned by two addresses, row by row
_expand_range(a_ref, b_ref) == expand_corners(parse_cell_ref(a_ref), parse_cell_ref(b_ref))

HasColon(t) == \E k \in 1..Len(t) : t[k] = ":"

\* the position of the first ":" of t
ColonIndex(t) == SetMin({k \in 1..Len(t) : t[k] = ":"})

\* left, right = t.split(':', 1); self._expand_range(left, right)
range_cells_at(t, i) == _expand_range(SubSeq(t, 1, i - 1), SubSeq(t, i + 1, Len(t)))

range_cells(t) == range_cells_at(t, ColonIndex(t))

\* the floats of the cells of a range that exist and parse
RECURSIVE range_values(_, _)
range_values(items, cells) ==
    IF cells = <<>> THEN <<>>
    ELSE item_float(_get_cell_item(items, Head(cells)[1], Head(cells)[2]))
             \o range_values(items, Tail(cells))

count_range(items, cells) ==
    Cardinality({k \in 1..Len(cells) : _is_numeric_cell(items, cells[k][1], cells[k][2])})

RECURSIVE SumSeq(_)
SumSeq(vals) == IF vals = <<>> THEN <<0, 1>> ELSE RatAdd(Head(vals), SumSeq(Tail(vals)))

RECURSIVE ProdSeq(_, _)
ProdSeq(vals, prod) ==
    IF vals = <<>> THEN prod ELSE ProdSeq(Tail(vals), RatMul(prod, Head(vals)))

RatMin(p, q) == IF RatLess(q, p) THEN q ELSE p
RatMax(p, q) == IF RatLess(p, q) THEN q ELSE p

RECURSIVE MinSeq(_)
MinSeq(vals) ==
    IF Len(vals) = 1 THEN vals[1] ELSE RatMin(Head(vals), MinSeq(Tail(vals)))

RECURSIVE MaxSeq(_)
MaxSeq(vals) ==
    IF Len(vals) = 1 THEN vals[1] ELSE RatMax(Head(vals), MaxSeq(Tail(vals)))

FnSum == {<<"S","U","M">>, <<"A","D","D">>}
FnAverage == {<<"A","V","E","R","A","G","E">>, <<"A","V","G">>, <<"M","E","A","N">>}
FnMin == {<<"M","I","N">>}
FnMax == {<<"M","A","X">>}
FnCount == {<<"C","O","U","N","T">>}
FnProduct == {<<"P","R","O","D","U","C","T">>}
FnAbs == {<<"A","B","S">>}

RECURSIVE evaluate_formula_str(_, _)
RECURSIVE _values_for_math(_, _)
RECURSIVE _count_numerics(_, _)

\* the single address read by what the cell displays, not by its raw value
values_of_ref_displayed(items, t, rc) ==
    IF rc # None
    THEN (IF rc \in DOMAIN items THEN float(items[rc].text) ELSE None)
    ELSE IF call_re_match(t) # None
    THEN float(evaluate_formula_str(items, <<"=">> \o t))
    ELSE float(t)

\* a token that is neither a range nor empty: rc is parse_cell_ref(t)
values_of_ref(items, t, rc) ==
    IF rc # None THEN item_float(_get_cell_item(items, rc[1], rc[2]))
    ELSE IF call_re_match(t) # None
    THEN float(evaluate_formula_str(items, <<"=">> \o t))
    ELSE float(t)

values_of_token(items, t) ==
    IF t = <<>> THEN <<>>
    ELSE IF HasColon(t) THEN range_values(items, range_cells(t))
    ELSE values_of_ref(items, t, parse_cell_ref(t))

_values_for_math(items, token) == values_of_token(items, Strip(token))

count_of_ref(items, t, rc) ==
    IF rc # None THEN (IF _is_numeric_cell(items, rc[1], rc[2]) THEN 1 ELSE 0)
    ELSE IF call_re_match(t) # None
    THEN (IF float(evaluate_formula_str(items, <<"=">> \o t)) # None THEN 1 ELSE 0)
    ELSE (IF float(t) # None THEN 1 ELSE 0)

count_of_token(items, t) ==
    IF t = <<>> THEN 0
    ELSE IF HasColon(t) THEN count_range(items, range_cells(t))
    ELSE count_of_ref(items, t, parse_cell_ref(t))

_count_numerics(items, token) == count_of_token(items, Strip(token))

\* vals = []; [vals.extend(self._values_for_math(t)) for t in args]
RECURSIVE collect_values(_, _)
collect_values(items, args) ==
    IF args = <<>> THEN <<>>
    ELSE _values_for_math(items, Head(args)) \o collect_values(items, Tail(args))

\* cnt = 0; for t in args: cnt += self._count_numerics(t)
RECURSIVE count_args(_, _)
count_args(items, args) ==
    IF args = <<>> THEN 0
    ELSE _count_numerics(items, Head(args)) + count_args(items, Tail(args))

\* PRODUCT without its test for no values: the empty product
evaluate_math_empty_product(text, func_name, vals) ==
    IF func_name \in FnSum THEN ResultStr(SumSeq(vals))
    ELSE IF func_name \in FnProduct THEN ResultStr(ProdSeq(vals, <<1, 1>>))
    ELSE IF func_name \notin FnAverage \cup FnMin \cup FnMax \cup FnAbs
    THEN text
    ELSE IF vals = <<>> THEN <<"0">>
    ELSE IF func_name \in FnAverage
    THEN ResultStr(RatMul(SumSeq(vals), Rat(1, Len(vals))))
    ELSE IF func_name \in FnMin THEN ResultStr(MinSeq(vals))
    ELSE IF func_name \in FnMax THEN ResultStr(MaxSeq(vals))
    ELSE ResultStr(RatAbs(vals[1]))

\* the branch of evaluate_formula_str for a function of the values
evaluate_math(text, func_name, vals) ==
    IF func_name \in FnSum THEN ResultStr(SumSeq(vals))
    ELSE IF func_name \notin FnAverage \cup FnMin \cup FnMax \cup FnProduct \cup FnAbs
    THEN text
    ELSE IF vals = <<>> THEN <<"0">>
    ELSE IF func_name \in FnAverage
    THEN ResultStr(RatMul(SumSeq(vals), Rat(1, Len(vals))))
    ELSE IF func_name \in FnMin THEN ResultStr(MinSeq(vals))
    ELSE IF func_name \in FnMax THEN ResultStr(MaxSeq(vals))
    ELSE IF func_name \in FnProduct THEN ResultStr(ProdSeq(vals, <<1, 1>>))
    ELSE ResultStr(RatAbs(vals[1]))

evaluate_call(items, text, func_name, args) ==
    IF func_name \in FnCount THEN IntStr(count_args(items, args))
    ELSE evaluate_math(text, func_name, collect_values(items, args))

\* a text that is no call shows an error mark
evaluate_match_marks_error(items, text, m) ==
    IF m = None THEN <<"#","E","R","R">>
    ELSE evaluate_call(items, text, Upper(m[1]), _split_args(m[2]))

evaluate_match(items, text, m) ==
    IF m = None THEN text
    ELSE evaluate_call(items, text, Upper(m[1]), _split_args(m[2]))

evaluate_stripped(items, text, s) ==
    IF ~StartsWith(s, "=") THEN s
    ELSE evaluate_match(items, text, call_re_match(Strip(Tail(s))))

evaluate_formula_str(items, text) == evaluate_stripped(items, text, Strip(text))

\* ------------------------------------------------------------ geometry
\* InfiniteHexGridScene.__init__ with MainWindow's hex_size.  hex_w and horiz
\* are sqrt(3) * hex_size: a comparison with a multiple of horiz is decided
\* exactly on the squares.

hex_size == 28
hex_h == 2 * hex_size
vert == (3 * hex_h) \div 4
left_margin == hex_size + 40
top_margin == hex_size + 30

\* int(x / y) for integers x and y > 0: truncation toward zero
TruncDiv(x, y) == IF x >= 0 THEN x \div y ELSE -((-x) \div y)

\* int(x / self.horiz) for an integer x
TruncDivHoriz(x) ==
    LET a == Abs(x)
        k == CHOOSE n \in 0..(a \div hex_size) :
                 /\ 3 * (n * hex_size) * (n * hex_size) <= a * a
                 /\ 3 * ((n + 1) * hex_size) * ((n + 1) * hex_size) > a * a
    IN  IF x >= 0 THEN k ELSE -k

\* view_rect is a QRectF with integer edges: [left, top, right, bottom].
\* padding = max(hex_w, hex_h) * 2 = 2 * hex_h, because sqrt(3) < 2.
get_visible_range(view_rect) ==
    LET padding == hex_h * 2
        top     == view_rect.top - padding
        bottom  == view_rect.bottom + padding
        left    == view_rect.left - padding
        right   == view_rect.right + padding
    IN  [min_row |-> IntMax(0, TruncDiv(top - top_margin, vert) - 1),
         max_row |-> TruncDiv(bottom - top_margin, vert) + 2,
         min_col |-> IntMax(0, TruncDivHoriz(left - left_margin) - 2),
         max_col |-> TruncDivHoriz(right - left_margin) + 3]

\* get_hex_position(row, col) lies inside view_rect.  With m = 2*col + row%2
\* the centre is (left_margin + m * horiz / 2, top_margin + row * vert).
CenterInRect(row, col, view_rect) ==
    LET m  == 2 * col + (row % 2)
        cy == top_margin + row * vert
        dl == view_rect.left - left_margin
        dr == view_rect.right - left_margin
    IN  /\ view_rect.top <= cy
        /\ cy <= view_rect.bottom
        /\ (dl <= 0 \/ 3 * (m * hex_size) * (m * hex_size) >= 4 * dl * dl)
        /\ dr >= 0
        /\ 3 * (m * hex_size) * (m * hex_size) <= 4 * dr * dr

\* ----------------------------------------------------------- fill path

MaxLineCells == 100

\* the row and the column after one step from (row, col) toward the end
step_row(row, col, end_row, end_col) ==
    IF Abs(end_row - row) > Abs(end_col - col)
    THEN IntMax(0, row + (IF end_row - row > 0 THEN 1 ELSE -1))
    ELSE IntMax(0, row)

step_col(row, col, end_row, end_col) ==
    IF Abs(end_row - row) > Abs(end_col - col)
    THEN IntMax(0, col)
    ELSE IntMax(0, col + (IF end_col - col > 0 THEN 1 ELSE -1))

\* the step with rows preferred on ties
step_row_on_ties(row, col, end_row, end_col) ==
    IF Abs(end_row - row) >= Abs(end_col - col) /\ end_row # row
    THEN IntMax(0, row + (IF end_row - row > 0 THEN 1 ELSE -1))
    ELSE IntMax(0, row)

step_col_on_ties(row, col, end_row, end_col) ==
    IF Abs(end_row - row) >= Abs(end_col - col) /\ end_row # row
    THEN IntMax(0, col)
    ELSE IntMax(0, col + (IF end_col - col > 0 THEN 1 ELSE -1))

step_cell_on_ties(row, col, end_row, end_col) ==
    <<step_row_on_ties(row, col, end_row, end_col),
      step_col_on_ties(row, col, end_row, end_col)>>

step_cell(row, col, end_row, end_col) ==
    <<step_row(row, col, end_row, end_col), step_col(row, col, end_row, end_col)>>

\* the while loop: it is left at the end cell, or once cells has more than
\* MaxLineCells entries
RECURSIVE line_walk(_, _, _, _)
RECURSIVE line_next(_, _, _, _)
line_walk(cells, cur, end_row, end_col) ==
    IF cur = <<end_row, end_col>> \/ Len(cells) > MaxLineCells THEN cells
    ELSE line_next(cells, step_cell(cur[1], cur[2], end_row, end_col), end_row, end_col)

line_next(cells, nxt, end_row, end_col) ==
    line_walk(Append(cells, nxt), nxt, end_row, end_col)

get_line_cells(start_row, start_col, end_row, end_col) ==
    IF start_row = end_row /\ start_col = end_col
    THEN <<<<start_row, start_col>>>>
    ELSE line_walk(<<<<start_row, start_col>>>>, <<start_row, start_col>>, end_row, end_col)

\* --------------------------------------------------------------- state
\* hex_items        the store: <<row, col>> -> HexItem record (the header
\*                  pseudo-entries of the same dict are kept in `headers`)
\* headers          the ('col_header', c) and ('row_header', r) keys
\* orphans          HexItems removed from the store that the editor, the drag
\*                  or the formula bar still holds a reference to
\* current_editor   None or <<[hex_item, line_edit]>>
\* drag_active, drag_start_item, fill_selection   the drag-fill state
\* current_item     MainWindow._current_item: None or <<reference>>
\* lost             history: keys evicted while holding a raw value that no
\*                  edit or fill has written since
\* last             the handler that ran last, with its input
\* call             the last application of a pure function (input and result)
\* steps            the number of events handled so far
VARIABLES hex_items, headers, orphans, current_editor, drag_active,
          drag_start_item, fill_selection, current_item, lost, last, call, steps

vars == <<hex_items, headers, orphans, current_editor, drag_active,
          drag_start_item, fill_selection, current_item, lost, last, call, steps>>

\* the scene and the window as one record; a handler maps it to its successor
State ==
    [hex_items |-> hex_items, headers |-> headers, orphans |-> orphans,
     current_editor |-> current_editor, drag_active |-> drag_active,
     drag_start_item |-> drag_start_item, fill_selection |-> fill_selection,
     current_item |-> current_item, lost |-> lost]

\* a function with its values computed
Force(f) == CHOOSE g \in {f} : TRUE

EvictMargin == 10

\* HexItem.__init__
HexItem(row, col) ==
    [row |-> row, col |-> col, value |-> <<>>, text |-> <<>>,
     selected |-> FALSE, is_fill_selected |-> FALSE]

\* A reference to a HexItem object: oid = 0 is the item the store holds under
\* key, oid > 0 an item that was removed from the store.
Ref(key) == [key |-> key, oid |-> 0]

ItemOf(st, ref) ==
    IF ref.oid = 0 THEN st.hex_items[ref.key] ELSE st.orphans[ref.oid]

PutItem(st, ref, it) ==
    IF ref.oid = 0 THEN [st EXCEPT !.hex_items[ref.key] = it]
    ELSE [st EXCEPT !.orphans[ref.oid] = it]

EditorRef(ed) == IF ed = None THEN None ELSE <<ed[1].hex_item>>

\* the references the scene and the window hold
Refs(st) ==
    {o[1] : o \in {x \in {EditorRef(st.current_editor), st.drag_start_item,
                          st.current_item} : x # None}}

\* objects no reference reaches are garbage
Collect(st) ==
    [st EXCEPT !.orphans =
        Force([i \in {j \in DOMAIN st.orphans : \E r \in Refs(st) : r.oid = j} |->
                  st.orphans[i]])]

_display_text_for_value(items, v) ==
    IF StartsWith(v, "=") THEN evaluate_formula_str(items, v) ELSE v

\* HexItem.set_value on the item `ref` refers to; a key of the store that is
\* written is no longer lost
set_value(st, ref, value) ==
    LET st1 == PutItem(st, ref, [ItemOf(st, ref) EXCEPT !.value = value])
        st2 == PutItem(st1, ref,
                       [ItemOf(st1, ref) EXCEPT
                           !.text = _display_text_for_value(st1.hex_items, value)])
    IN  [st2 EXCEPT !.lost = IF ref.oid = 0 THEN @ \ {ref.key} ELSE @]

\* no sweep: the displays stay as they are
no_recalc(st) == st

\* a sweep in which every evaluation fails shows the raw text of each formula
recalc_all_raw(st) ==
    [st EXCEPT !.hex_items =
        Force([k \in DOMAIN st.hex_items |->
                  [st.hex_items[k] EXCEPT !.text = st.hex_items[k].value]])]

\* evaluation reads raw values only, so the sweep's result does not depend on
\* the order of the dict
recalc_all(st) ==
    LET items == st.hex_items
    IN  [st EXCEPT !.hex_items =
            Force([k \in DOMAIN items |->
                      IF StartsWith(items[k].value, "=")
                      THEN [items[k] EXCEPT
                               !.text = evaluate_formula_str(items, items[k].value)]
                      ELSE items[k]])]

\* the marks are left as they are
keep_selection(st) == st

clear_selection(st) ==
    [st EXCEPT !.hex_items =
        [k \in DOMAIN st.hex_items |->
            [st.hex_items[k] EXCEPT !.selected = FALSE, !.is_fill_selected = FALSE]]]

\* MainWindow._on_cell_selected, connected to cellSelected
_on_cell_selected(st, ref) == [st EXCEPT !.current_item = <<ref>>]

finish_editing(st) ==
    IF st.current_editor = None THEN st
    ELSE LET ed  == st.current_editor[1]
             st1 == set_value(st, ed.hex_item, ed.line_edit)
             st2 == [st1 EXCEPT !.current_editor = None]
         IN  recalc_all(_on_cell_selected(st2, ed.hex_item))

\* the editor opens empty instead of holding the cell's raw value
start_cell_editing_unseeded(st, ref) ==
    [finish_editing(st) EXCEPT !.current_editor = <<[hex_item |-> ref, line_edit |-> <<>>]>>]

start_cell_editing(st, ref) ==
    LET st1 == finish_editing(st)
    IN  [st1 EXCEPT !.current_editor =
            <<[hex_item |-> ref, line_edit |-> ItemOf(st1, ref).value]>>]

\* Escape taken for Return: the pending text is committed
cancel_editing_commits(st) == finish_editing(st)

cancel_editing(st) ==
    IF st.current_editor = None THEN st ELSE [st EXCEPT !.current_editor = None]

start_drag_operation(st, ref) ==
    [st EXCEPT !.drag_active = TRUE,
               !.drag_start_item = <<ref>>,
               !.fill_selection = {<<ItemOf(st, ref).row, ItemOf(st, ref).col>>}]

\* HexItem.mousePressEvent with the left button
mousePressEvent(st, key) ==
    LET st1 == clear_selection(st)
        st2 == [st1 EXCEPT !.hex_items[key].selected = TRUE]
    IN  start_drag_operation(_on_cell_selected(st2, Ref(key)), Ref(key))

\* the k-th smallest element of a set of numbers
RECURSIVE NthSmallest(_, _)
NthSmallest(S, k) ==
    IF k = 1 THEN SetMin(S) ELSE NthSmallest(S \ {SetMin(S)}, k - 1)

KeyLess(a, b) == a[1] < b[1] \/ (a[1] = b[1] /\ a[2] < b[2])

create_header_items(st, rng) ==
    [st EXCEPT !.headers = @
        \cup {<<"col_header", c>> : c \in rng.min_col..rng.max_col}
        \cup {<<"row_header", r>> : r \in rng.min_row..rng.max_row}]

\* the removal with the cells at exactly the margin taken too
items_to_remove_at_margin(keys, rng) ==
    {k \in keys :
        \/ k[1] <= rng.min_row - EvictMargin
        \/ k[1] >= rng.max_row + EvictMargin
        \/ k[2] <= rng.min_col - EvictMargin
        \/ k[2] >= rng.max_col + EvictMargin}

\* the keys update_visible_items removes for the range rng
items_to_remove(keys, rng) ==
    {k \in keys :
        \/ k[1] < rng.min_row - EvictMargin
        \/ k[1] > rng.max_row + EvictMargin
        \/ k[2] < rng.min_col - EvictMargin
        \/ k[2] > rng.max_col + EvictMargin}

\* an eviction that takes the view away and leaves the entry and its value
detach_view_only(st, removed) ==
    [st EXCEPT !.lost = @ \cup {k \in removed : st.hex_items[k].value # <<>>}]

\* the items removed from the store that are still referenced stay alive
\* outside it: each gets the smallest unused object id
Detach(st, removed) ==
    LET held   == {r.key : r \in {x \in Refs(st) : x.oid = 0 /\ x.key \in removed}}
        free   == (1..(Cardinality(DOMAIN st.orphans) + Cardinality(held)))
                      \ DOMAIN st.orphans
        oidOf  == [k \in held |->
                      NthSmallest(free, 1 + Cardinality({j \in held : KeyLess(j, k)}))]
        moved(o) == IF o # None /\ o[1].oid = 0 /\ o[1].key \in held
                    THEN <<[o[1] EXCEPT !.oid = oidOf[o[1].key]]>>
                    ELSE o
    IN  [st EXCEPT
            !.orphans = Force([i \in DOMAIN st.orphans \cup {oidOf[k] : k \in held} |->
                                  IF i \in DOMAIN st.orphans THEN st.orphans[i]
                                  ELSE st.hex_items[CHOOSE k \in held : oidOf[k] = i]]),
            !.current_editor =
                IF st.current_editor = None THEN None
                ELSE <<[st.current_editor[1] EXCEPT
                           !.hex_item = moved(<<st.current_editor[1].hex_item>>)[1]]>>,
            !.drag_start_item = moved(st.drag_start_item),
            !.current_item = moved(st.current_item),
            !.lost = @ \cup {k \in removed : st.hex_items[k].value # <<>>},
            !.hex_items = Force([k \in DOMAIN st.hex_items \ removed |-> st.hex_items[k]])]

\* the creation loops with range(min, max) in place of range(min, max + 1)
update_visible_items_short(st, view_rect) ==
    LET rng    == get_visible_range(view_rect)
        wanted == (rng.min_row..(rng.max_row - 1)) \X (rng.min_col..(rng.max_col - 1))
        st2    == [create_header_items(st, rng) EXCEPT !.hex_items =
                      Force([k \in DOMAIN st.hex_items \cup wanted |->
                                IF k \in DOMAIN st.hex_items THEN st.hex_items[k]
                                ELSE HexItem(k[1], k[2])])]
    IN  Detach(st2, items_to_remove(DOMAIN st2.hex_items, rng))

\* one row and one column more on the low side, without the test of the sign
update_visible_items_below_zero(st, view_rect) ==
    LET rng    == get_visible_range(view_rect)
        wanted == ((rng.min_row - 1)..rng.max_row) \X ((rng.min_col - 1)..rng.max_col)
        st2    == [create_header_items(st, rng) EXCEPT !.hex_items =
                      Force([k \in DOMAIN st.hex_items \cup wanted |->
                                IF k \in DOMAIN st.hex_items THEN st.hex_items[k]
                                ELSE HexItem(k[1], k[2])])]
    IN  Detach(st2, items_to_remove(DOMAIN st2.hex_items, rng))

update_visible_items(st, view_rect) ==
    LET rng    == get_visible_range(view_rect)
        st1    == create_header_items(st, rng)
        wanted == {k \in (rng.min_row..rng.max_row) \X (rng.min_col..rng.max_col) :
                      k[1] >= 0 /\ k[2] >= 0}
        st2    == [st1 EXCEPT !.hex_items =
                      Force([k \in DOMAIN st.hex_items \cup wanted |->
                                IF k \in DOMAIN st.hex_items THEN st.hex_items[k]
                                ELSE HexItem(k[1], k[2])])]
    IN  Detach(st2, items_to_remove(DOMAIN st2.hex_items, rng))

\* the marks of the previous path are left standing
update_drag_selection_keeps_marks(st, current_cell) ==
    IF ~st.drag_active \/ st.drag_start_item = None \/ current_cell = None THEN st
    ELSE LET start == ItemOf(st, st.drag_start_item[1])
             path  == get_line_cells(start.row, start.col,
                                     current_cell[1], current_cell[2])
             sel   == {path[i] : i \in 1..Len(path)}
             mark  == sel \ {<<start.row, start.col>>}
             items == st.hex_items
         IN  [st EXCEPT
                 !.fill_selection = sel,
                 !.hex_items =
                     Force([k \in DOMAIN items \cup mark |->
                               IF k \in mark
                               THEN [(IF k \in DOMAIN items THEN items[k]
                                      ELSE HexItem(k[1], k[2]))
                                        EXCEPT !.is_fill_selected = TRUE]
                               ELSE items[k]])]

\* update_drag_selection; current_cell is what get_hex_at_position returns for
\* the pointer: None or a cell of the store
update_drag_selection(st, current_cell) ==
    IF ~st.drag_active \/ st.drag_start_item = None \/ current_cell = None THEN st
    ELSE LET start     == ItemOf(st, st.drag_start_item[1])
             start_key == <<start.row, start.col>>
             old       == st.fill_selection
             path      == get_line_cells(start.row, start.col,
                                         current_cell[1], current_cell[2])
             sel       == {path[i] : i \in 1..Len(path)}
             mark      == sel \ {start_key}
             items     == st.hex_items
             cleared(k) == IF k \in DOMAIN items
                           THEN (IF k \in old
                                 THEN [items[k] EXCEPT !.is_fill_selected = FALSE]
                                 ELSE items[k])
                           ELSE HexItem(k[1], k[2])
         IN  [st EXCEPT
                 !.fill_selection = sel,
                 !.hex_items =
                     Force([k \in DOMAIN items \cup mark |->
                               IF k \in mark
                               THEN [cleared(k) EXCEPT !.is_fill_selected = TRUE]
                               ELSE cleared(k)])]

\* finish_drag_operation.  The display a set_value of the loop computes is
\* recomputed by the closing recalc_all against the store after the loop, so
\* the order in which the set is walked does not show.
finish_drag_operation(st) ==
    IF ~st.drag_active \/ st.drag_start_item = None THEN st
    ELSE LET start == ItemOf(st, st.drag_start_item[1])
             original_value == start.value
             items   == st.hex_items
             targets == {k \in st.fill_selection :
                            k \in DOMAIN items /\ k # <<start.row, start.col>>}
             st1 == [st EXCEPT
                        !.hex_items =
                            Force([k \in DOMAIN items |->
                                      IF k \in targets
                                      THEN [items[k] EXCEPT
                                               !.value = original_value,
                                               !.text = _display_text_for_value(
                                                            items, original_value),
                                               !.is_fill_selected = FALSE]
                                      ELSE items[k]]),
                        !.lost = @ \ targets,
                        !.drag_active = FALSE,
                        !.drag_start_item = None,
                        !.fill_selection = {}]
         IN  recalc_all(st1)

\* InfiniteHexGridScene.mouseReleaseEvent with the left button
mouseReleaseEvent(st) ==
    IF ~st.drag_active THEN st
    ELSE IF Cardinality(st.fill_selection) <= 1
    THEN start_cell_editing([st EXCEPT !.drag_active = FALSE], st.drag_start_item[1])
    ELSE finish_drag_operation(st)

\* MainWindow._apply_formula_edit with the formula bar holding t
_apply_formula_edit(st, t) ==
    IF st.current_item = None THEN st
    ELSE recalc_all(set_value(st, st.current_item[1], t))

\* ---------------------------------------------------------------- inputs

A1 == <<0, 0>>
A2 == <<1, 0>>
B1 == <<0, 1>>

NearRect == [left |-> 60, top |-> 50, right |-> 70, bottom |-> 60]
FarRect == [left |-> 60, top |-> 680, right |-> 70, bottom |-> 690]
Rects == {NearRect, FarRect}

ClickCells == {A1, A2}
MoveCells == {A1, B1}

TextFive == <<"5">>
TextSum == <<"=","S","U","M","(","A","1",":","B","1",")">>
Texts == {TextFive, TextSum}

NoCall == <<"none", <<>>, <<>>>>

Init ==
    /\ hex_items = <<>>
    /\ headers = {}
    /\ orphans = <<>>
    /\ current_editor = None
    /\ drag_active = FALSE
    /\ drag_start_item = None
    /\ fill_selection = {}
    /\ current_item = None
    /\ lost = {}
    /\ last = <<"init", <<>>, <<>>>>
    /\ call = NoCall
    /\ steps = 0

\* --------------------------------------------------------------- actions

\* the runs explored handle at most MaxSteps events
MaxSteps == 8

Step ==
    /\ steps < MaxSteps
    /\ steps' = steps + 1

\* the handler's result becomes the next state
Becomes(st) ==
    /\ Step
    /\ hex_items' = st.hex_items
    /\ headers' = st.headers
    /\ orphans' = st.orphans
    /\ current_editor' = st.current_editor
    /\ drag_active' = st.drag_active
    /\ drag_start_item' = st.drag_start_item
    /\ fill_selection' = st.fill_selection
    /\ current_item' = st.current_item
    /\ lost' = st.lost
    /\ call' = call

\* InfiniteHexView.update_scene_items: scroll, resize, zoom
UpdateVisibleItems(view_rect) ==
    /\ \E st \in {Collect(update_visible_items(State, view_rect))} : Becomes(st)
    /\ last' = <<"update_visible_items", view_rect, <<>>>>

\* a left press on the item under the pointer
MousePress(key) ==
    /\ key \in DOMAIN hex_items
    /\ \E st \in {Collect(mousePressEvent(State, key))} : Becomes(st)
    /\ last' = <<"mousePressEvent", key, <<>>>>

\* mouseMoveEvent with the pointer over a cell of the store
MouseMove(current_cell) ==
    /\ drag_active
    /\ current_cell \in DOMAIN hex_items
    /\ \E st \in {Collect(update_drag_selection(State, current_cell))} : Becomes(st)
    /\ last' = <<"mouseMoveEvent", current_cell, <<>>>>

\* mouseReleaseEvent; last keeps the anchor, and the fill path and the
\* anchor's raw value as they were at the release
MouseRelease ==
    /\ drag_active
    /\ \E st \in {Collect(mouseReleaseEvent(State))} : Becomes(st)
    /\ last' = <<"mouseReleaseEvent", drag_start_item[1],
                 [path |-> fill_selection,
                  value |-> ItemOf(State, drag_start_item[1]).value,
                  editor |-> current_editor]>>

\* HexItem.mouseDoubleClickEvent -> start_editing; the second press of a
\* double click comes after the release of the first
MouseDoubleClick(key) ==
    /\ key \in DOMAIN hex_items
    /\ ~drag_active
    /\ \E st \in {Collect(start_cell_editing(State, Ref(key)))} : Becomes(st)
    /\ last' = <<"mouseDoubleClickEvent", key, current_editor>>

\* the user types t into the inline editor
TypeText(t) ==
    /\ current_editor # None
    /\ Step
    /\ current_editor' = <<[current_editor[1] EXCEPT !.line_edit = t]>>
    /\ last' = <<"type", t, <<>>>>
    /\ UNCHANGED <<hex_items, headers, orphans, drag_active, drag_start_item,
                   fill_selection, current_item, lost, call>>

\* returnPressed / editingFinished of the inline editor
FinishEditing ==
    /\ current_editor # None
    /\ \E st \in {Collect(finish_editing(State))} : Becomes(st)
    /\ last' = <<"finish_editing", current_editor[1].hex_item, current_editor[1].line_edit>>

\* keyPressEvent(Key_Escape)
CancelEditing ==
    /\ current_editor # None
    /\ \E st \in {Collect(cancel_editing(State))} : Becomes(st)
    /\ last' = <<"cancel_editing", current_editor[1].hex_item, current_editor[1].line_edit>>

\* returnPressed of the formula bar holding t; the keyboard is not in the
\* formula bar while a button is held on the grid
ApplyFormulaEdit(t) ==
    /\ current_item # None
    /\ ~drag_active
    /\ \E st \in {Collect(_apply_formula_edit(State, t))} : Becomes(st)
    /\ last' = <<"_apply_formula_edit", current_item[1], t>>

Next ==
    \/ \E view_rect \in Rects : UpdateVisibleItems(view_rect)
    \/ \E key \in ClickCells : MousePress(key)
    \/ \E current_cell \in MoveCells : MouseMove(current_cell)
    \/ MouseRelease
    \/ \E key \in ClickCells : MouseDoubleClick(key)
    \/ \E t \in Texts : TypeText(t)
    \/ FinishEditing
    \/ CancelEditing
    \/ \E t \in Texts : ApplyFormulaEdit(t)

Spec == Init /\ [][Next]_vars

\* ------------------------------------------- the formula engine on its own
\* A store and a formula text are drawn; the step evaluates the text against
\* the store.  The argument list is kept in structured form next to the text
\* written from it.

A3 == <<2, 0>>
B2 == <<1, 1>>

\* the address of a cell as _on_cell_selected writes it
cell_address(cell) == column_to_excel_name(cell[2]) \o IntStr(cell[1] + 1)

\* an argument: a range, a single address, or a numeric literal written as
\* text and worth num
ArgRange(a, b) == [kind |-> "range", a |-> a, b |-> b, text |-> <<>>, num |-> <<0, 1>>]
ArgCell(a) == [kind |-> "cell", a |-> a, b |-> a, text |-> <<>>, num |-> <<0, 1>>]
ArgLit(text, num) == [kind |-> "literal", a |-> A1, b |-> A1, text |-> text, num |-> num]

ArgText(arg) ==
    IF arg.kind = "range" THEN cell_address(arg.a) \o <<":">> \o cell_address(arg.b)
    ELSE IF arg.kind = "cell" THEN cell_address(arg.a)
    ELSE arg.text

RECURSIVE JoinArgs(_)
JoinArgs(args) ==
    IF args = <<>> THEN <<>>
    ELSE IF Len(args) = 1 THEN ArgText(args[1])
    ELSE ArgText(args[1]) \o <<",", " ">> \o JoinArgs(Tail(args))

FormulaText(fn, args) == <<"=">> \o fn \o <<"(">> \o JoinArgs(args) \o <<")">>

NameSum == <<"S","U","M">>
NameAverage == <<"A","V","E","R","A","G","E">>
NameMin == <<"M","I","N">>
NameMax == <<"M","A","X">>
NameProduct == <<"P","R","O","D","U","C","T">>
EvalNames == {NameSum, NameAverage, NameMin, NameMax, NameProduct}

EvalArgs ==
    {ArgRange(A1, A3), ArgRange(A3, A1), ArgRange(A1, B2),
     ArgCell(A1), ArgCell(A2), ArgCell(B1),
     ArgLit(<<"1","0">>, <<10, 1>>), ArgLit(<<"1",".","5">>, <<3, 2>>)}

MaxArgs == 2

EvalArgLists == UNION {[1..n -> EvalArgs] : n \in 1..MaxArgs}

\* a store holding the given raw values; Absent marks a cell that is not there
Absent == <<"absent">>

StoreOf(vals) ==
    Force([k \in {c \in DOMAIN vals : vals[c] # Absent} |->
              [HexItem(k[1], k[2]) EXCEPT !.value = vals[k], !.text = vals[k]]])

EvalStores ==
    {StoreOf((A1 :> v1) @@ (A2 :> v2) @@ (A3 :> v3) @@ (B1 :> v4)) :
        v1 \in {Absent, <<"2">>},
        v2 \in {<<"4">>, <<"x">>, <<>>},
        v3 \in {<<"6">>, <<"1",".","5">>},
        v4 \in {Absent, <<"-","3">>}}

\* A1=2, A2=4, A3=6
Store246 == StoreOf((A1 :> <<"2">>) @@ (A2 :> <<"4">>) @@ (A3 :> <<"6">>) @@ (B1 :> Absent))

InitRest ==
    /\ headers = {}
    /\ orphans = <<>>
    /\ current_editor = None
    /\ drag_active = FALSE
    /\ drag_start_item = None
    /\ fill_selection = {}
    /\ current_item = None
    /\ lost = {}
    /\ last = <<"init", <<>>, <<>>>>
    /\ steps = 0

InitEval ==
    /\ hex_items \in EvalStores
    /\ call \in {<<"input", [fn |-> fn, args |-> args, text |-> FormulaText(fn, args)], <<>>>> :
                    fn \in EvalNames, args \in EvalArgLists}
    /\ InitRest

Evaluate ==
    /\ call[1] = "input"
    /\ call' = <<"evaluate_formula_str", call[2], evaluate_formula_str(hex_items, call[2].text)>>
    /\ UNCHANGED <<hex_items, headers, orphans, current_editor, drag_active,
                   drag_start_item, fill_selection, current_item, lost, last, steps>>

NextEval == Evaluate

SpecEval == InitEval /\ [][NextEval]_vars

\* the values V of an argument list, read off the store without the engine
RECURSIVE CellSetValues(_, _)
CellSetValues(items, S) ==
    IF S = {} THEN <<>>
    ELSE LET k == CHOOSE c \in S : \A d \in S : c = d \/ KeyLess(c, d)
         IN  (IF k \in DOMAIN items THEN float(items[k].value) ELSE <<>>)
                 \o CellSetValues(items, S \ {k})

Rectangle(a, b) ==
    (IntMin(a[1], b[1])..IntMax(a[1], b[1])) \X (IntMin(a[2], b[2])..IntMax(a[2], b[2]))

ArgValues(items, arg) ==
    IF arg.kind = "range" THEN CellSetValues(items, Rectangle(arg.a, arg.b))
    ELSE IF arg.kind = "cell" THEN CellSetValues(items, {arg.a})
    ELSE <<arg.num>>

RECURSIVE ArgListValues(_, _)
ArgListValues(items, args) ==
    IF args = <<>> THEN <<>>
    ELSE ArgValues(items, Head(args)) \o ArgListValues(items, Tail(args))

RECURSIVE FoldSum(_, _)
FoldSum(V, n) == IF n = 0 THEN <<0, 1>> ELSE RatAdd(FoldSum(V, n - 1), V[n])

RECURSIVE FoldProduct(_, _)
FoldProduct(V, n) == IF n = 0 THEN <<1, 1>> ELSE RatMul(FoldProduct(V, n - 1), V[n])

Least(V) == CHOOSE v \in {V[i] : i \in 1..Len(V)} : \A i \in 1..Len(V) : ~RatLess(V[i], v)
Greatest(V) == CHOOSE v \in {V[i] : i \in 1..Len(V)} : \A i \in 1..Len(V) : ~RatLess(v, V[i])

\* the sum, mean, minimum, maximum or product of a non-empty V
Aggregate(fn, V) ==
    IF fn = NameSum THEN FoldSum(V, Len(V))
    ELSE IF fn = NameAverage THEN Rat(FoldSum(V, Len(V))[1], FoldSum(V, Len(V))[2] * Len(V))
    ELSE IF fn = NameMin THEN Least(V)
    ELSE IF fn = NameMax THEN Greatest(V)
    ELSE FoldProduct(V, Len(V))

HasDot(s) == \E i \in 1..Len(s) : s[i] = "."

\* what the claim says the call recorded in `call` displays
DisplaysAggregate(V) ==
    /\ V # <<>> =>
        /\ call[3] = ResultStr(Aggregate(call[2].fn, V))
        /\ is_integer(Aggregate(call[2].fn, V)) => ~HasDot(call[3])
    /\ (V = <<>> /\ call[2].fn = NameSum) => call[3] = <<"0">>

Example(fn, args, shown) ==
    (hex_items = Store246 /\ call[2].fn = fn /\ call[2].args = args) => call[3] = shown

\* C1: for every store and every argument list of ranges, single addresses
\* and numeric literals, SUM, AVERAGE, MIN, MAX and PRODUCT display the sum,
\* mean, minimum, maximum and product of V, the concatenation over the
\* arguments of the numeric raw values of the existing cells of a range, of
\* the referenced cell, or the literal (V non-empty; the sum also for an empty
\* V); an integral result has no fractional part; with A1=2, A2=4, A3=6 the
\* displays are SUM(A1:A3)="12", AVERAGE="4", MIN="2", MAX="6", PRODUCT="48",
\* SUM(A1:A3, 10)="22".
C1_AggregatesOfValues ==
    call[1] = "evaluate_formula_str" =>
        /\ DisplaysAggregate(ArgListValues(hex_items, call[2].args))
        /\ Example(NameSum, <<ArgRange(A1, A3)>>, <<"1","2">>)
        /\ Example(NameAverage, <<ArgRange(A1, A3)>>, <<"4">>)
        /\ Example(NameMin, <<ArgRange(A1, A3)>>, <<"2">>)
        /\ Example(NameMax, <<ArgRange(A1, A3)>>, <<"6">>)
        /\ Example(NameProduct, <<ArgRange(A1, A3)>>, <<"4","8">>)
        /\ Example(NameSum, <<ArgRange(A1, A3), ArgLit(<<"1","0">>, <<10, 1>>)>>, <<"2","2">>)

\* =SUM(A1:A3, 10) over A1=2, A2=4, A3=6 has been evaluated and shows 22
C1_Witness ==
    /\ call[1] = "evaluate_formula_str"
    /\ hex_items = Store246
    /\ call[2].text = <<"=","S","U","M","(","A","1",":","A","3",","," ","1","0",")">>
    /\ call[3] = <<"2","2">>

\* ------------------------------------------------- the fill path on its own
\* An anchor and a target are drawn; the step computes the path between them.

MaxNear == 2

\* near coordinates, and coordinates 100 and more steps away from them
LineCoords == (0..MaxNear) \cup {40, 60, MaxLineCells + 1}

InitLine ==
    /\ hex_items = <<>>
    /\ call \in {<<"input", <<r0, c0, r1, c1>>, <<>>>> :
                    r0 \in LineCoords, c0 \in LineCoords, r1 \in LineCoords, c1 \in LineCoords}
    /\ InitRest

LineCells ==
    /\ call[1] = "input"
    /\ call' = <<"get_line_cells", call[2],
                 get_line_cells(call[2][1], call[2][2], call[2][3], call[2][4])>>
    /\ UNCHANGED <<hex_items, headers, orphans, current_editor, drag_active,
                   drag_start_item, fill_selection, current_item, lost, last, steps>>

NextLine == LineCells

SpecLine == InitLine /\ [][NextLine]_vars

Sign(n) == IF n > 0 THEN 1 ELSE IF n < 0 THEN -1 ELSE 0

\* one step from cell p toward the target t, as the claim words it
StepToward(p, t) ==
    IF Abs(t[1] - p[1]) > Abs(t[2] - p[2])
    THEN <<p[1] + Sign(t[1] - p[1]), p[2]>>
    ELSE <<p[1], p[2] + Sign(t[2] - p[2])>>

\* C8: the fill path from an anchor to a target with coordinates >= 0 starts
\* at the anchor; each step moves one row toward the target when
\* |drow| > |dcol| and otherwise one column toward it; it ends at the target
\* after exactly |r1-r0| + |c1-c0| steps when that is at most 100 and stops
\* after 100 steps otherwise; no cell of it has a negative coordinate; from
\* (0,0) to (0,5) it is (0,0),(0,1),(0,2),(0,3),(0,4),(0,5).
C8_GreedyPath ==
    /\ get_line_cells(0, 0, 0, 5) = <<<<0,0>>, <<0,1>>, <<0,2>>, <<0,3>>, <<0,4>>, <<0,5>>>>
    /\ call[1] = "get_line_cells" =>
        LET anchor == <<call[2][1], call[2][2]>>
            target == <<call[2][3], call[2][4]>>
            path   == call[3]
            dist   == Abs(target[1] - anchor[1]) + Abs(target[2] - anchor[2])
        IN  /\ path[1] = anchor
            /\ \A i \in 1..(Len(path) - 1) : path[i + 1] = StepToward(path[i], target)
            /\ dist <= 100 => (Len(path) = dist + 1 /\ path[Len(path)] = target)
            /\ dist > 100 => Len(path) = 101
            /\ \A i \in 1..Len(path) : path[i][1] >= 0 /\ path[i][2] >= 0

\* a path of exactly 100 steps that reaches its target has been computed
C8_Witness ==
    /\ call[1] = "get_line_cells"
    /\ call[2] = <<0, 0, 60, 40>>
    /\ Len(call[3]) = 101
    /\ call[3][101] = <<60, 40>>

\* ------------------------------------------------ the viewport on its own
\* The view is scrolled, resized and zoomed over rectangles of two sizes at
\* several origins, with an edit of one cell in between.

ViewRect(x, y, w, h) == [left |-> x, top |-> y, right |-> x + w, bottom |-> y + h]

ViewOrigins == {<<0, 0>>, <<60, 50>>, <<60, 680>>, <<900, 50>>}

ViewRects ==
    {ViewRect(o[1], o[2], 10, 10) : o \in ViewOrigins}
        \cup {ViewRect(o[1], o[2], 200, 150) : o \in ViewOrigins}

MaxViewSteps == 5

ViewUpdate(view_rect) == steps < MaxViewSteps /\ UpdateVisibleItems(view_rect)
ViewDoubleClick == steps < MaxViewSteps /\ MouseDoubleClick(A2)
ViewType == steps < MaxViewSteps /\ TypeText(TextFive)
ViewFinish == steps < MaxViewSteps /\ FinishEditing

NextView ==
    \/ \E view_rect \in ViewRects : ViewUpdate(view_rect)
    \/ ViewDoubleClick
    \/ ViewType
    \/ ViewFinish

SpecView == Init /\ [][NextView]_vars

\* the rows and columns looked at for hex centres
GridRows == 30
GridCols == 30

\* C4: after update_visible_items(rect) every (row, col) with row, col >= 0
\* whose hex centre lies inside rect is a cell of the store, and so is every
\* (row, col) of the computed range, whatever the store held before.
C4_VisibleCellsExist ==
    last[1] = "update_visible_items" =>
        /\ \A row \in 0..GridRows, col \in 0..GridCols :
               CenterInRect(row, col, last[2]) => <<row, col>> \in DOMAIN hex_items
        /\ \A row \in get_visible_range(last[2]).min_row..get_visible_range(last[2]).max_row,
              col \in get_visible_range(last[2]).min_col..get_visible_range(last[2]).max_col :
               <<row, col>> \in DOMAIN hex_items

\* the view has moved to a rectangle that holds hex centres, over a store
\* that held cells left by an earlier rectangle
C4_Witness ==
    /\ last[1] = "update_visible_items"
    /\ last[2] = ViewRect(900, 50, 200, 150)
    /\ steps >= 2
    /\ \E row \in 0..GridRows, col \in 0..GridCols :
           CenterInRect(row, col, last[2]) /\ <<row, col>> \in DOMAIN hex_items

Beyond(k, rng) ==
    \/ k[1] < rng.min_row - 10
    \/ k[1] > rng.max_row + 10
    \/ k[2] < rng.min_col - 10
    \/ k[2] > rng.max_col + 10

\* C5: update_visible_items(rect) evicts exactly the cells whose row or
\* column lies more than 10 outside the range computed for rect: afterwards
\* no such cell is in the store, no cell within the margin has been removed,
\* and every surviving cell keeps its raw value and display text.
C5_EvictsExactlyBeyondMargin ==
    [][last'[1] = "update_visible_items" =>
          \A rng \in {get_visible_range(last'[2])} :
          \A before \in {hex_items} :
          \A after \in {hex_items'} :
              /\ \A k \in DOMAIN after : ~Beyond(k, rng)
              /\ \A k \in DOMAIN before :
                     ~Beyond(k, rng) =>
                         /\ k \in DOMAIN after
                         /\ after[k].value = before[k].value
                         /\ after[k].text = before[k].text]_vars

\* a viewport move has evicted row 0 and kept A2, which holds a value
C5_Witness ==
    /\ last[1] = "update_visible_items"
    /\ A1 \notin DOMAIN hex_items
    /\ A2 \in DOMAIN hex_items
    /\ hex_items[A2].value = TextFive

\* --------------------------------------------------- claims on the editor,
\* the drag-fill controller and eviction, under Spec

\* the display a cell of the store must show: the evaluation of a formula
\* against the store, the raw value of anything else
Displayed(k) ==
    IF StartsWith(hex_items[k].value, "=")
    THEN evaluate_formula_str(hex_items, hex_items[k].value)
    ELSE hex_items[k].value

\* the handler that ran last has committed an edit or a fill
Committed ==
    \/ last[1] \in {"finish_editing", "_apply_formula_edit"}
    \/ last[1] = "mouseDoubleClickEvent" /\ last[3] # None
    \/ last[1] = "mouseReleaseEvent"
           /\ (Cardinality(last[3].path) > 1 \/ last[3].editor # None)

\* C2: after every edit commit (inline editor or formula bar) and every fill
\* commit, each cell of the store whose raw value starts with "=" displays the
\* evaluation of its raw value against the store as it is after the commit,
\* and every other cell displays its raw value.
C2_DisplaysAfterCommit ==
    Committed => \A k \in DOMAIN hex_items : hex_items[k].text = Displayed(k)

\* a commit has left A1 = 5 and the formula of A2 over A1:B1 displaying 5
C2_Witness ==
    /\ Committed
    /\ A1 \in DOMAIN hex_items
    /\ A2 \in DOMAIN hex_items
    /\ hex_items[A1].value = TextFive
    /\ hex_items[A2].value = TextSum
    /\ hex_items[A2].text = <<"5">>

\* the raw value read at a key: a cell that is not in the store reads as empty
RawAt(k) == IF k \in DOMAIN hex_items THEN hex_items[k].value ELSE <<>>

\* C3: whenever an edit session is open on cell (row, col), the commit makes
\* the store's raw value at (row, col) the committed text and closes the
\* session, also when the viewport moved between the begin and the commit.
C3_CommitWritesCell ==
    last[1] = "finish_editing" =>
        /\ RawAt(last[2].key) = last[3]
        /\ current_editor = None

\* C6: a cell that was evicted while it held a non-empty raw value, and that
\* no edit or fill has written since, is back in the store only with an empty
\* raw value and an empty display: the earlier value is never restored.
C6_EvictionDestroys ==
    \A k \in lost :
        k \in DOMAIN hex_items =>
            hex_items[k].value = <<>> /\ hex_items[k].text = <<>>

\* the viewport has come back over a cell that was evicted with a value
C6_Witness ==
    /\ last[1] = "update_visible_items"
    /\ \E k \in lost : k \in DOMAIN hex_items /\ hex_items[k].value = <<>>

\* C7: on release of a drag whose fill path has more than one cell, every
\* path cell other than the anchor has the raw value the anchor had at the
\* release, and the controller is idle: no drag active, empty fill path, no
\* anchor.
C7_FillCopiesAnchor ==
    (last[1] = "mouseReleaseEvent" /\ Cardinality(last[3].path) > 1) =>
        /\ \A k \in last[3].path \ {last[2].key} : RawAt(k) = last[3].value
        /\ ~drag_active
        /\ fill_selection = {}
        /\ drag_start_item = None

Selected == {k \in DOMAIN hex_items : hex_items[k].selected}

\* C9: a primary click on a cell clears every selected and fill-selected
\* mark, marks exactly the clicked cell selected and starts a drag anchored at
\* it with the fill path {anchor}; in every reachable state at most one cell
\* of the store is selected and no cell is both selected and fill-selected.
C9_ClickSelectsOne ==
    /\ last[1] = "mousePressEvent" =>
        /\ Selected = {last[2]}
        /\ \A k \in DOMAIN hex_items : ~hex_items[k].is_fill_selected
        /\ drag_active
        /\ drag_start_item = <<Ref(last[2])>>
        /\ fill_selection = {last[2]}
    /\ Cardinality(Selected) <= 1
    /\ \A k \in DOMAIN hex_items :
           ~(hex_items[k].selected /\ hex_items[k].is_fill_selected)

\* A2 has been clicked while the editor a click on A1 opened is still there:
\* A1's mark is gone and A2 alone is selected
C9_Witness ==
    /\ last[1] = "mousePressEvent"
    /\ last[2] = A2
    /\ current_editor # None
    /\ current_editor[1].hex_item = Ref(A1)
    /\ Selected = {A2}

\* the editor a begin-edit found open, None when there was none
EditorBefore ==
    IF last[1] = "mouseDoubleClickEvent" THEN last[3]
    ELSE IF last[1] = "mouseReleaseEvent" /\ Cardinality(last[3].path) <= 1
    THEN last[3].editor
    ELSE None

\* the cell a begin-edit was asked for
BeginKey == IF last[1] = "mouseDoubleClickEvent" THEN last[2] ELSE last[2].key

\* C10: at most one edit session is open; beginning an edit on a cell while
\* a session is open on another cell first commits the open session's pending
\* text as that other cell's raw value, and only then opens the new session.
C10_BeginCommitsOpenSession ==
    (EditorBefore # None /\ EditorBefore[1].hex_item.key # BeginKey) =>
        /\ RawAt(EditorBefore[1].hex_item.key) = EditorBefore[1].line_edit
        /\ current_editor # None
        /\ current_editor[1].hex_item.key = BeginKey

\* C11: cancel_editing closes the open edit session and leaves every cell's
\* raw value, display text and selection marks unchanged, whatever text was
\* pending in the editor; with no session open it changes nothing.
C11_CancelChangesNoCell ==
    [][/\ last'[1] = "cancel_editing" =>
              /\ current_editor' = None
              /\ hex_items' = hex_items
       /\ \A st \in {State} : st.current_editor = None => cancel_editing(st) = st]_vars

\* the editor was closed by a cancel while it held the pending text 5, over
\* a cell whose raw value is not 5
C11_Witness ==
    /\ last[1] = "cancel_editing"
    /\ last[3] = TextFive
    /\ last[2].oid = 0
    /\ hex_items[last[2].key].value # TextFive
    /\ current_editor = None

\* --------------------------------------------- nested calls as arguments
\* A store and a formula are drawn whose arguments are ranges, addresses,
\* literals and nested calls NAME(...) over ranges, addresses and literals.

NameCount == <<"C","O","U","N","T">>

ArgCall(fn, inner) ==
    [kind |-> "call", a |-> A1, b |-> A1, text |-> <<>>, num |-> <<0, 1>>,
     fn |-> fn, inner |-> inner]

NestText(arg) ==
    IF arg.kind = "call"
    THEN arg.fn \o <<"(">> \o JoinArgs(arg.inner) \o <<")">>
    ELSE ArgText(arg)

RECURSIVE JoinNest(_)
JoinNest(args) ==
    IF args = <<>> THEN <<>>
    ELSE IF Len(args) = 1 THEN NestText(args[1])
    ELSE NestText(args[1]) \o <<",", " ">> \o JoinNest(Tail(args))

NestFormulaText(fn, args) == <<"=">> \o fn \o <<"(">> \o JoinNest(args) \o <<")">>

LitTen == ArgLit(<<"1","0">>, <<10, 1>>)

InnerArgLists ==
    {<<ArgRange(A1, A3)>>, <<ArgCell(A1)>>, <<ArgLit(<<"1",".","5">>, <<3, 2>>)>>,
     <<ArgLit(<<"1">>, <<1, 1>>), ArgLit(<<"2">>, <<2, 1>>)>>,
     <<ArgRange(A1, A3), LitTen>>}

NestArgs ==
    {ArgCall(fn, inner) : fn \in {NameSum, NameMax}, inner \in InnerArgLists}
        \cup {ArgRange(A1, A3), ArgCell(A2), LitTen}

MaxNestArgs == 2

NestArgLists == UNION {[1..n -> NestArgs] : n \in 1..MaxNestArgs}

NestNames == {NameSum, NameMax, NameProduct, NameCount}

NestStores ==
    {StoreOf((A1 :> v1) @@ (A2 :> v2) @@ (A3 :> <<"6">>) @@ (B1 :> Absent)) :
        v1 \in {Absent, <<"2">>}, v2 \in {<<"4">>, <<"x">>, <<>>}}

InitNest ==
    /\ hex_items \in NestStores
    /\ call \in {<<"input", [fn |-> fn, args |-> args, text |-> NestFormulaText(fn, args)], <<>>>> :
                    fn \in NestNames, args \in NestArgLists}
    /\ InitRest

NextNest == Evaluate

SpecNest == InitNest /\ [][NextNest]_vars

\* what a call over ranges, addresses and literals displays (C1, and "0" for
\* no value)
PlainDisplay(items, fn, args) ==
    IF ArgListValues(items, args) = <<>> THEN <<"0">>
    ELSE ResultStr(Aggregate(fn, ArgListValues(items, args)))

\* the values of an argument: a nested call gives its display read as a number
NestValues(items, arg) ==
    IF arg.kind = "call" THEN float(PlainDisplay(items, arg.fn, arg.inner))
    ELSE ArgValues(items, arg)

RECURSIVE NestListValues(_, _)
NestListValues(items, args) ==
    IF args = <<>> THEN <<>>
    ELSE NestValues(items, Head(args)) \o NestListValues(items, Tail(args))

NestExample(fn, args, shown) ==
    (hex_items = Store246 /\ call[2].fn = fn /\ call[2].args = args) => call[3] = shown

\* C12: a nested call argument NAME(...) is evaluated recursively and its
\* textual result, read as a number, contributes exactly one value to the
\* enclosing function, also when its argument list contains a range; with
\* A1=2, A2=4, A3=6, =SUM(MAX(A1:A3), 10) displays "16" and
\* =SUM(SUM(A1:A3), 10) displays "22".
C12_NestedContributesOneValue ==
    (call[1] = "evaluate_formula_str" /\ call[2].fn # NameCount) =>
        /\ NestListValues(hex_items, call[2].args) # <<>> =>
               call[3] = ResultStr(Aggregate(call[2].fn, NestListValues(hex_items, call[2].args)))
        /\ NestExample(NameSum, <<ArgCall(NameMax, <<ArgRange(A1, A3)>>), LitTen>>, <<"1","6">>)
        /\ NestExample(NameSum, <<ArgCall(NameSum, <<ArgRange(A1, A3)>>), LitTen>>, <<"2","2">>)

\* ------------------------------------------ texts the engine does not support
\* A store and a text are drawn; set_value writes the text into a cell.

TextPlus == <<"=","A","1","+","A","2">>
TextUnknown == <<"=","U","N","K","N","O","W","N","(","A","1",")">>
TextOpen == <<"=","S","U","M","(","A","1">>
TextNoOpen == <<"=","S","U","M"," ","A","1",")">>
TextNumber == <<"=","4","2">>
TextEquals == <<"=">>
TextSums == <<"=","s","u","m","s","(","A","1",":","A","2",")">>
TextAddress == <<"=","A","1">>
TextParens == <<"=","(","A","1",")">>
TextPlusBlank == <<"=","A","1","+","A","2"," ">>
TextCallPlus == <<"=","S","U","M","(","A","1",")","+","1">>
TextDigitName == <<"=","1","S","U","M","(","A","1",")">>

\* texts that are no call =NAME(args), or whose NAME is no function or alias
UnsupportedTexts ==
    {TextPlus, TextUnknown, TextOpen, TextNoOpen, TextNumber, TextEquals, TextSums,
     TextAddress, TextParens, TextPlusBlank, TextCallPlus, TextDigitName}

TextSumCol == <<"=","S","U","M","(","A","1",":","A","2",")">>

ShowTexts == UnsupportedTexts \cup {TextFive, TextSumCol}

\* a store whose display texts are what set_value left there
StoreShown(vals) ==
    Force([k \in DOMAIN StoreOf(vals) |->
              [StoreOf(vals)[k] EXCEPT
                  !.text = _display_text_for_value(StoreOf(vals), StoreOf(vals)[k].value)]])

ShowStores ==
    {StoreShown((A1 :> v1) @@ (A2 :> v2) @@ (B1 :> v3)) :
        v1 \in {<<>>, <<"5">>, TextPlus},
        v2 \in {<<"4">>, <<"x">>},
        v3 \in {Absent, <<"-","3">>, TextSumCol}}

InitShow ==
    /\ hex_items \in ShowStores
    /\ call \in {<<"input", [cell |-> k, text |-> t], <<>>>> : k \in {A1, A2}, t \in ShowTexts}
    /\ InitRest

SetValue ==
    /\ call[1] = "input"
    /\ \E st \in {set_value(State, Ref(call[2].cell), call[2].text)} :
           /\ hex_items' = st.hex_items
           /\ lost' = st.lost
    /\ call' = <<"set_value", call[2], hex_items>>
    /\ UNCHANGED <<headers, orphans, current_editor, drag_active, drag_start_item,
                   fill_selection, current_item, last, steps>>

NextShow == SetValue

SpecShow == InitShow /\ [][NextShow]_vars

NameAbs == <<"A","B","S">>

\* an argument that is no address, no range and no number
ArgJunk(text) == [kind |-> "junk", a |-> A1, b |-> A1, text |-> text, num |-> <<0, 1>>]

EmptyArgs ==
    {ArgRange(A1, A3), ArgCell(A1), ArgCell(B1), LitTen,
     ArgJunk(<<"A","0">>), ArgJunk(<<"A","1",":">>), ArgJunk(<<"A","0",":","A","2">>), ArgJunk(<<"a","b","c">>),
     ArgJunk(<<"1",".","2",".","3">>), ArgJunk(<<"-">>)}

MaxEmptyArgs == 2

EmptyArgLists == UNION {[1..n -> EmptyArgs] : n \in 0..MaxEmptyArgs}

EmptyNames == EvalNames \cup {NameAbs}

EmptyStores ==
    {StoreShown((A1 :> v1) @@ (A2 :> v2) @@ (A3 :> v3) @@ (B1 :> Absent)) :
        v1 \in {Absent, <<>>, <<"x">>, <<"2">>},
        v2 \in {<<>>, <<"=","S","U","M","(","5",")">>},
        v3 \in {Absent, <<"x">>}}

InitEmpty ==
    /\ hex_items \in EmptyStores
    /\ call \in {<<"input", [fn |-> fn, args |-> args, text |-> FormulaText(fn, args)], <<>>>> :
                    fn \in EmptyNames, args \in EmptyArgLists}
    /\ InitRest

NextEmpty == Evaluate

SpecEmpty == InitEmpty /\ [][NextEmpty]_vars

\* the values of an argument list, read off the store without the engine
RECURSIVE JunkListValues(_, _)
JunkListValues(items, args) ==
    IF args = <<>> THEN <<>>
    ELSE (IF Head(args).kind = "junk" THEN <<>> ELSE ArgValues(items, Head(args)))
             \o JunkListValues(items, Tail(args))

\* C14: when the arguments resolve to no numeric value (no argument, or only
\* empty, non-numeric or absent cells, addresses or ranges that do not parse,
\* literals that are no number), SUM, AVERAGE, MIN, MAX, PRODUCT and ABS each
\* display "0".
C14_NoValueDisplaysZero ==
    (call[1] = "evaluate_formula_str" /\ JunkListValues(hex_items, call[2].args) = <<>>) =>
        call[3] = <<"0">>

C14_Witness ==
    /\ call[1] = "evaluate_formula_str"
    /\ call[2].fn = NameProduct
    /\ call[2].args = <<ArgRange(A1, A3), ArgJunk(<<"A","1",":">>)>>
    /\ A1 \in DOMAIN hex_items
    /\ hex_items[A1].value = <<"x">>
    /\ call[3] = <<"0">>

\* the numerically-parseable items of an argument: the numeric existing cells
\* of a range, the referenced cell if numeric, a nested call if its display
\* is a number, a literal
NestCount(items, arg) ==
    IF arg.kind = "call"
    THEN (IF float(PlainDisplay(items, arg.fn, arg.inner)) # None THEN 1 ELSE 0)
    ELSE Len(ArgValues(items, arg))

RECURSIVE NestListCount(_, _)
NestListCount(items, args) ==
    IF args = <<>> THEN 0
    ELSE NestCount(items, Head(args)) + NestListCount(items, Tail(args))

\* C15: COUNT displays the number of numerically-parseable items across its
\* arguments: for a range the existing cells of the rectangle whose raw value
\* parses as a number, for a single address 1 if that cell is numeric, for a
\* nested call 1 if its result is numeric; this is the number of values the
\* value pass used by SUM produces for the same arguments; with A1=2, A2=4,
\* A3=6, COUNT(A1:A3) displays "3".
C15_CountOfNumericItems ==
    (call[1] = "evaluate_formula_str" /\ call[2].fn = NameCount) =>
        /\ call[3] = IntStr(NestListCount(hex_items, call[2].args))
        /\ call[3] = IntStr(Len(collect_values(hex_items, _split_args(JoinNest(call[2].args)))))
        /\ NestExample(NameCount, <<ArgRange(A1, A3)>>, <<"3">>)

\* ------------------------------------------------- evaluation and the sweep
\* A store and a text are drawn; the text is written into a cell with
\* set_value and recalc_all sweeps the store, as finish_editing does.

TextNested == <<"=","S","U","M","(","M","A","X","(","A","1",","," ","2",")",","," ","M","I","N","(","3",","," ","A","2",")",")">>
TextDeep == <<"=","S","U","M","(","S","U","M","(","S","U","M","(","1",")",")",")">>
TextOpenTwice == <<"=","S","U","M","(","(">>
TextHalfRange == <<"=","S","U","M","(","A","1",":",")">>
TextAbsOfNone == <<"=","A","B","S","(","M","A","X","(",")",")">>
TextUnknownOuter == <<"=","U","N","K","N","O","W","N","(","S","U","M","(","1",")",")">>
TextUnknownInner == <<"=","S","U","M","(","a","(","b","(","c",")",")",","," ","1",")">>
TextNestedRange == <<"=","M","A","X","(","S","U","M","(","A","1",":","A","2",")",")">>
TextCloseTwice == <<"=","S","U","M","(",")",")">>
TextInnerEquals == <<"=","M","A","X","(","=","1",")">>
TextBlanks == <<"="," ","S","U","M"," ","("," ","M","A","X"," ","("," ","1"," ",")"," ",","," ","x"," ",")"," ">>

SweepTexts ==
    {TextNested, TextDeep, TextOpenTwice, TextHalfRange, TextAbsOfNone, TextUnknownOuter,
     TextUnknownInner, TextNestedRange, TextCloseTwice, TextInnerEquals, TextBlanks,
     TextPlus, TextSumCol, TextFive}

InitSweep ==
    /\ hex_items \in ShowStores
    /\ call \in {<<"input", [cell |-> k, text |-> t], <<>>>> : k \in {A1, A2}, t \in SweepTexts}
    /\ InitRest

SetValueRecalc ==
    /\ call[1] = "input"
    /\ \E st \in {recalc_all(set_value(State, Ref(call[2].cell), call[2].text))} :
           /\ hex_items' = st.hex_items
           /\ lost' = st.lost
    /\ call' = <<"recalc_all", call[2], hex_items>>
    /\ UNCHANGED <<headers, orphans, current_editor, drag_active, drag_start_item,
                   fill_selection, current_item, last, steps>>

NextSweep == SetValueRecalc

SpecSweep == InitSweep /\ [][NextSweep]_vars

\* the texts evaluate_formula_str is called with for the nested calls among
\* the arguments args
nested_calls(args) ==
    {<<"=">> \o Strip(args[i]) :
        i \in {j \in DOMAIN args :
                  /\ Strip(args[j]) # <<>>
                  /\ ~HasColon(Strip(args[j]))
                  /\ parse_cell_ref(Strip(args[j])) = None
                  /\ call_re_match(Strip(args[j])) # None}}

nested_of_match(m) == IF m = None THEN {} ELSE nested_calls(_split_args(m[2]))

nested_texts(text) ==
    IF ~StartsWith(Strip(text), "=") THEN {}
    ELSE nested_of_match(call_re_match(Strip(Tail(Strip(text)))))

\* every text the evaluation of text reaches, text included
RECURSIVE reached_texts(_)
reached_texts(text) == {text} \cup UNION {reached_texts(u) : u \in nested_texts(text)}

\* C16: evaluating a formula text terminates (each recursive evaluation is of
\* a strictly shorter text) and yields a display string, the computed number
\* or the raw text; a sweep keeps the cells and their raw values and
\* evaluates each formula cell once against them; no cell is left without a
\* display by set_value or recalc_all.
C16_EvaluationTerminates ==
    call[1] = "recalc_all" =>
        /\ \A u \in reached_texts(call[2].text) :
               \A w \in nested_texts(u) : Len(w) < Len(u)
        /\ \/ hex_items[call[2].cell].text = call[2].text
           \/ float(hex_items[call[2].cell].text) # None
        /\ DOMAIN hex_items = DOMAIN call[3]
        /\ \A k \in DOMAIN hex_items :
               /\ hex_items[k].value = IF k = call[2].cell THEN call[2].text ELSE call[3][k].value
               /\ hex_items[k].text = _display_text_for_value(hex_items, hex_items[k].value)
               /\ \/ hex_items[k].text = hex_items[k].value
                  \/ float(hex_items[k].text) # None

C16_Witness ==
    /\ call[1] = "recalc_all"
    /\ call[2].text = TextDeep
    /\ call[2].cell = A2
    /\ reached_texts(TextDeep) = {TextDeep, <<"=","S","U","M","(","S","U","M","(","1",")",")">>, <<"=","S","U","M","(","1",")">>}
    /\ hex_items[A2].text = <<"1">>
    /\ B1 \in DOMAIN hex_items
    /\ hex_items[B1].value = TextSumCol
    /\ hex_items[B1].text # call[3][B1].text

\* C17: in every reachable state every cell of the store has row >= 0 and
\* col >= 0, and the store holds one cell per (row, col): the item under a
\* key carries that key's row and column.
C17_CellsOnGrid ==
    \A k \in DOMAIN hex_items :
        /\ k[1] >= 0
        /\ k[2] >= 0
        /\ hex_items[k].row = k[1]
        /\ hex_items[k].col = k[2]

\* the store was filled at the origin, a cell was edited, a drag marked cells
\* and the view was updated again
C17_Witness ==
    /\ last[1] = "update_visible_items"
    /\ A1 \in DOMAIN hex_items
    /\ hex_items[A1].value = TextFive
    /\ \E k \in DOMAIN hex_items : hex_items[k].is_fill_selected
    /\ Cardinality(DOMAIN hex_items) > 1

\* ------------------------------------------------------ addresses and ranges
\* An input is drawn: a column index, an address text or two corners of a
\* range; the action of its kind applies the function to it.

MaxColumn == 1000

\* str.lower()
Lower(s) == [i \in 1..Len(s) |-> IF s[i] \in UpperSet THEN LOWER[LetterOrd(s[i])] ELSE s[i]]

AddrRows == {0, 1, 8, 9, 98, 99, 1047}
AddrCols == {0, 1, 25, 26, 27, 51, 52, 701, 702, MaxColumn}

\* the address of a cell, in upper or in lower case
AddrInputs ==
    {[kind |-> "address", cell |-> <<r, c>>,
      text |-> IF up THEN cell_address(<<r, c>>) ELSE Lower(cell_address(<<r, c>>))] :
        r \in AddrRows, c \in AddrCols, up \in BOOLEAN}

\* texts that are not letters followed by digits, or whose row numeral is 0
NoAddressTexts ==
    {<<"1","A">>, <<"A","0">>, <<"a","0">>, <<"A","A","0","0">>, <<"A">>, <<"1">>, <<"A","1","B">>, <<"A","-","1">>, <<"A"," ","1">>, <<"A","1",".","5">>, <<"$","A","$","1">>, <<>>}

NoAddrInputs == {[kind |-> "none", cell |-> None, text |-> t] : t \in NoAddressTexts}

ColumnInputs == {[kind |-> "column", n |-> n] : n \in 0..MaxColumn}

CornerCells == ((0..2) \X (0..2)) \cup {<<9, 26>>}

RangeInputs == {[kind |-> "range", p |-> p, q |-> q] : p \in CornerCells, q \in CornerCells}

InitAddr ==
    /\ hex_items = <<>>
    /\ call \in {<<"input", x, <<>>>> : x \in ColumnInputs \cup AddrInputs \cup NoAddrInputs \cup RangeInputs}
    /\ InitRest

Unchanged == UNCHANGED <<hex_items, headers, orphans, current_editor, drag_active,
                         drag_start_item, fill_selection, current_item, lost, last, steps>>

ColumnName ==
    /\ call[1] = "input"
    /\ call[2].kind = "column"
    /\ \E name \in {column_to_excel_name(call[2].n)} :
           call' = <<"column_to_excel_name", call[2],
                     [name |-> name, index |-> excel_col_to_index(name)]>>
    /\ Unchanged

ParseCellRef ==
    /\ call[1] = "input"
    /\ call[2].kind \in {"address", "none"}
    /\ call' = <<"parse_cell_ref", call[2], parse_cell_ref(call[2].text)>>
    /\ Unchanged

ExpandRange ==
    /\ call[1] = "input"
    /\ call[2].kind = "range"
    /\ call' = <<"_expand_range", call[2],
                 [pq |-> _expand_range(cell_address(call[2].p), cell_address(call[2].q)),
                  qp |-> _expand_range(cell_address(call[2].q), cell_address(call[2].p))]>>
    /\ Unchanged

NextAddr == ColumnName \/ ParseCellRef \/ ExpandRange

SpecAddr == InitAddr /\ [][NextAddr]_vars

ColumnExample(n, name) == call[2].n = n => call[3].name = name

\* C18: for every n in 0..1000 the column index of the column name of n is n,
\* and the name is a non-empty string of the upper-case letters A-Z only;
\* 0 gives "A", 25 gives "Z", 26 gives "AA".
C18_ColumnNameRoundTrip ==
    call[1] = "column_to_excel_name" =>
        /\ call[3].index = call[2].n
        /\ call[3].name # <<>>
        /\ \A i \in 1..Len(call[3].name) : call[3].name[i] \in UpperSet
        /\ ColumnExample(0, <<"A">>)
        /\ ColumnExample(25, <<"Z">>)
        /\ ColumnExample(26, <<"A","A">>)

C18_Witness ==
    /\ call[1] = "column_to_excel_name"
    /\ call[2].n = MaxColumn
    /\ Len(call[3].name) = 3
    /\ call[3].index = MaxColumn

AddressExample(text, cell) == call[2].text = text => call[3] = cell

\* C19: for row >= 0 and col >= 0, parse_cell_ref of the column name of col
\* followed by the decimal numeral of row + 1, in upper or in lower case, is
\* (row, col): A1 is (0,0), Z1 is (0,25), AA1 is (0,26), a10 is (9,0); a text
\* that is not letters followed by digits, such as "1A", or whose row numeral
\* is 0, gives none.
C19_ParsesAddresses ==
    call[1] = "parse_cell_ref" =>
        /\ call[2].kind = "address" => call[3] = call[2].cell
        /\ call[2].kind = "none" => call[3] = None
        /\ AddressExample(<<"A","1">>, <<0, 0>>)
        /\ AddressExample(<<"Z","1">>, <<0, 25>>)
        /\ AddressExample(<<"A","A","1">>, <<0, 26>>)
        /\ AddressExample(<<"a","1","0">>, <<9, 0>>)

C19_Witness ==
    /\ call[1] = "parse_cell_ref"
    /\ call[2].text = <<"a","l","m","1","0","4","8">>
    /\ call[3] = <<1047, MaxColumn>>

\* "1A" was parsed and gave none
C19_WitnessNone ==
    /\ call[1] = "parse_cell_ref"
    /\ call[2].text = <<"1","A">>
    /\ call[3] = None

CellsOf(seq) == {seq[i] : i \in 1..Len(seq)}

RangeExample(p, q, n) ==
    (call[2].p = p /\ call[2].q = q) =>
        (Len(call[3].pq) = n /\ Cardinality(CellsOf(call[3].pq)) = n)

\* C20: for two valid addresses P and Q the ranges P:Q and Q:P expand to the
\* same set of cells, every (row, col) of the rectangle
\* [min row..max row] x [min col..max col], also when P and Q are the mixed
\* corners (A3:C1); A1:C3 and C3:A1 both give the same 9 cells.
C20_RangeIsTheRectangle ==
    call[1] = "_expand_range" =>
        /\ CellsOf(call[3].pq) = CellsOf(call[3].qp)
        /\ CellsOf(call[3].pq) = Rectangle(call[2].p, call[2].q)
        /\ RangeExample(<<0, 0>>, <<2, 2>>, 9)
        /\ RangeExample(<<2, 2>>, <<0, 0>>, 9)

\* A3:C1, the mixed corners, was expanded to the 9 cells of A1:C3
C20_Witness ==
    /\ call[1] = "_expand_range"
    /\ call[2].p = <<2, 0>>
    /\ call[2].q = <<0, 2>>
    /\ CellsOf(call[3].pq) = (0..2) \X (0..2)
    /\ CellsOf(call[3].qp) = (0..2) \X (0..2)

\* --------------------------------------------------- eviction and formulas

\* the cells a token of an argument list names: those of a range, or the one
\* of a single address
token_cells(t) ==
    IF t = <<>> THEN {}
    ELSE IF HasColon(t) THEN {range_cells(t)[i] : i \in 1..Len(range_cells(t))}
    ELSE IF parse_cell_ref(t) # None THEN {parse_cell_ref(t)}
    ELSE {}

cells_of_match(m) ==
    IF m = None THEN {}
    ELSE UNION {token_cells(Strip(_split_args(m[2])[i])) : i \in 1..Len(_split_args(m[2]))}

\* the cells the arguments of a formula text reference directly
referenced_cells(text) ==
    IF ~StartsWith(Strip(text), "=") THEN {}
    ELSE cells_of_match(call_re_match(Strip(Tail(Strip(text)))))

\* C21: after update_visible_items evicts a cell, every formula cell still in
\* the store that references the evicted cell displays the evaluation of its
\* raw value against the store as it is after the eviction (the evicted cell
\* counts as empty).
C21_EvictionRefreshesFormulas ==
    [][last'[1] = "update_visible_items" =>
          \A before \in {hex_items} :
          \A after \in {hex_items'} :
              \A k \in DOMAIN after :
                  (referenced_cells(after[k].value) \cap (DOMAIN before \ DOMAIN after) # {}) =>
                      after[k].text = evaluate_formula_str(after, after[k].value)]_vars

\* ------------------------------------------------- the drag and the viewport
\* Presses, pointer moves and releases while the viewport moves between the
\* origin and rows 20..28, which evicts the rows above row 10.

DeepRect == [left |-> 60, top |-> 1052, right |-> 70, bottom |-> 1062]
DragRects == {NearRect, DeepRect}
DragMoveCells == {B1, A2, <<20, 0>>, <<20, 3>>}

MaxDragSteps == 6

DragUpdate(view_rect) == steps < MaxDragSteps /\ UpdateVisibleItems(view_rect)
DragPress(key) == steps < MaxDragSteps /\ MousePress(key)
DragMove(current_cell) == steps < MaxDragSteps /\ MouseMove(current_cell)
DragRelease == steps < MaxDragSteps /\ MouseRelease

NextDrag ==
    \/ \E view_rect \in DragRects : DragUpdate(view_rect)
    \/ \E key \in ClickCells : DragPress(key)
    \/ \E current_cell \in DragMoveCells : DragMove(current_cell)
    \/ DragRelease

SpecDrag == Init /\ [][NextDrag]_vars

FillMarked == {k \in DOMAIN hex_items : hex_items[k].is_fill_selected}

\* the cells of the path from the anchor to the cell the pointer is over
PathCells(anchor, current_cell) ==
    {get_line_cells(anchor.row, anchor.col, current_cell[1], current_cell[2])[i] :
        i \in 1..Len(get_line_cells(anchor.row, anchor.col, current_cell[1], current_cell[2]))}

MarksFollowPath(anchor, path) ==
    /\ path \ {<<anchor.row, anchor.col>>} \subseteq DOMAIN hex_items
    /\ FillMarked = path \ {<<anchor.row, anchor.col>>}

\* C22: while a drag is active, after each pointer move that lands on a cell
\* the cells marked fill-selected are exactly the cells of the current path
\* other than the anchor, each of them in the store (created if it was
\* missing), so cells of the previous path that left the path are un-marked;
\* whenever no drag is active no cell of the store is marked fill-selected.
C22_MarksAreThePath ==
    /\ (drag_active /\ last[1] = "mouseMoveEvent") =>
           \A anchor \in {ItemOf(State, drag_start_item[1])} :
               MarksFollowPath(anchor, PathCells(anchor, last[2]))
    /\ ~drag_active => FillMarked = {}

\* the anchor A1 was evicted and the pointer moved to (20,0) and then to
\* (20,3): the path cells above row 10 were created and marked, and (18,0),
\* which only the first path had created, is in the store without a mark
C22_Witness ==
    /\ drag_active
    /\ last[1] = "mouseMoveEvent"
    /\ last[2] = <<20, 3>>
    /\ drag_start_item[1].oid # 0
    /\ <<5, 0>> \in FillMarked
    /\ <<18, 0>> \in DOMAIN hex_items
    /\ <<18, 0>> \notin FillMarked

\* ------------------------------------------------ release on the anchor

RawValues(items) == [k \in DOMAIN items |-> items[k].value]

\* C23: on release of a drag whose fill path is just the anchor, no cell's
\* raw value changes, the drag is no longer active, and an edit session is
\* open on the anchor cell with its pending text seeded from the anchor's
\* current raw value.
C23_ReleaseOnAnchorOpensEditor ==
    [][(last'[1] = "mouseReleaseEvent" /\ Cardinality(fill_selection) <= 1) =>
          /\ RawValues(hex_items') = RawValues(hex_items)
          /\ ~drag_active'
          /\ current_editor' =
                 <<[hex_item |-> drag_start_item[1],
                    line_edit |-> ItemOf(State, drag_start_item[1]).value]>>]_vars

\* the raw value of the item ref refers to, in the store items or among the
\* removed items orph
ValueOf(items, orph, ref) ==
    IF ref.oid = 0 THEN items[ref.key].value ELSE orph[ref.oid].value

\* C23, amended: on release of a drag whose fill path is just the anchor, no
\* cell's raw value changes other than that of the cell of an edit session
\* still open at the release, which takes that session's pending text; the
\* drag is no longer active, and an edit session is open on the anchor cell
\* with its pending text seeded from the anchor's raw value as it then is.
C23_ReleaseCommitsThenOpensEditor ==
    [][(last'[1] = "mouseReleaseEvent" /\ Cardinality(fill_selection) <= 1) =>
          \A before \in {hex_items} :
          \A after \in {hex_items'} :
              /\ DOMAIN after = DOMAIN before
              /\ \A k \in DOMAIN before :
                     after[k].value # before[k].value =>
                         /\ current_editor # None
                         /\ current_editor[1].hex_item = Ref(k)
                         /\ after[k].value = current_editor[1].line_edit
              /\ current_editor' =
                     <<[hex_item |-> drag_start_item[1],
                        line_edit |-> ValueOf(after, orphans', drag_start_item[1])]>>
              /\ ~drag_active']_vars

\* a press and a release on A1, which holds 5, with no session open: the
\* editor is open on A1 and holds 5
C23_Witness ==
    /\ last[1] = "mouseReleaseEvent"
    /\ last[3].path = {A1}
    /\ last[3].editor = None
    /\ last[3].value = TextFive
    /\ ~drag_active
    /\ current_editor = <<[hex_item |-> Ref(A1), line_edit |-> TextFive]>>

\* ------------------------------------------------------ the argument list
\* A list of argument texts is drawn (nested calls with balanced parentheses,
\* literals, addresses, empty and blank texts), joined with commas and split.

TokMax12 == <<"M","A","X","(","1",",","2",")">>
TokThree == <<"3">>

SplitTokens ==
    {TokMax12, TokThree, <<>>, <<" ">>, <<"M","I","N","(","M","A","X","(","1",",","2",")",","," ","3",")">>, <<" ","A","1"," ">>, <<"S","U","M","(",")">>, <<"1","0">>}

MaxTokens == 3

SplitInputs == UNION {[1..n -> SplitTokens] : n \in 0..MaxTokens}

RECURSIVE JoinCommas(_)
JoinCommas(tokens) ==
    IF tokens = <<>> THEN <<>>
    ELSE IF Len(tokens) = 1 THEN tokens[1]
    ELSE tokens[1] \o <<",">> \o JoinCommas(Tail(tokens))

InitSplit ==
    /\ hex_items = <<>>
    /\ call \in {<<"input", tokens, <<>>>> : tokens \in SplitInputs}
    /\ InitRest

SplitArgs ==
    /\ call[1] = "input"
    /\ call' = <<"_split_args", call[2],
                 [args |-> _split_args(JoinCommas(call[2])),
                  shown |-> evaluate_formula_str(hex_items,
                                <<"=","S","U","M","(">> \o JoinCommas(call[2]) \o <<")">>)]>>
    /\ Unchanged

NextSplit == SplitArgs

SpecSplit == InitSplit /\ [][NextSplit]_vars

IsBlank(t) == \A i \in 1..Len(t) : t[i] = " "

\* the argument texts without their surrounding blanks, the empty ones dropped
RECURSIVE OuterArgs(_)
OuterArgs(tokens) ==
    IF tokens = <<>> THEN <<>>
    ELSE (IF IsBlank(Head(tokens)) THEN <<>> ELSE <<Strip(Head(tokens))>>)
             \o OuterArgs(Tail(tokens))

\* C24: an argument list is split only at the commas at parenthesis depth 0:
\* the commas inside a nested call never split the outer list, and empty
\* tokens between commas are dropped; =SUM(MAX(1,2),3) has exactly the two
\* outer arguments MAX(1,2) and 3 and displays "5".
C24_SplitsAtDepthZero ==
    call[1] = "_split_args" =>
        /\ call[3].args = OuterArgs(call[2])
        /\ call[2] = <<TokMax12, TokThree>> =>
               /\ call[3].args = <<TokMax12, TokThree>>
               /\ call[3].shown = <<"5">>

\* MAX(1,2), an empty token and MIN(MAX(1,2), 3) were split into two arguments
C24_Witness ==
    /\ call[1] = "_split_args"
    /\ call[2] = <<TokMax12, <<>>, <<"M","I","N","(","M","A","X","(","1",",","2",")",","," ","3",")">>>>
    /\ call[3].args = <<TokMax12, <<"M","I","N","(","M","A","X","(","1",",","2",")",","," ","3",")">>>>
    /\ call[3].shown = <<"4">>

\* C25: a cell that is not in the store is created, with an empty raw value,
\* when the range expansion of a formula references its (row, col): after a
\* formula over a range has been evaluated (by a commit and its sweep), every
\* (row, col) of the range is in the store.
C25_RangeCellsExist ==
    Committed =>
        \A k \in DOMAIN hex_items :
            referenced_cells(hex_items[k].value) \subseteq DOMAIN hex_items

\* ------------------------------------------------------------ formula cycles
\* the deepest parenthesis nesting of a text
RECURSIVE paren_depth(_, _, _)
paren_depth(s, depth, deepest) ==
    IF s = <<>> THEN deepest
    ELSE IF Head(s) = "(" THEN
        paren_depth(Tail(s), depth + 1, IF depth + 1 > deepest THEN depth + 1 ELSE deepest)
    ELSE IF Head(s) = ")" THEN paren_depth(Tail(s), depth - 1, deepest)
    ELSE paren_depth(Tail(s), depth, deepest)

nesting_depth(text) == paren_depth(text, 0, 0)

\* the number of evaluate_formula_str frames on the stack at the deepest
\* point of the evaluation of text
RECURSIVE eval_depth(_)
eval_depth(text) == 1 + SetMax({0} \cup {eval_depth(u) : u \in nested_texts(text)})

\* the texts evaluated below the outermost frame of the evaluation of text
reentered_texts(text) == UNION {reached_texts(u) : u \in nested_texts(text)}

\* formulas that reference A1 and A2 inside a nested call, by a range and by
\* single addresses
CycleTexts == {TextNestedRange, TextNested}

\* the formula written to the cell references the cell itself through a
\* nested call
CycleEvaluated ==
    /\ call[1] = "recalc_all"
    /\ call[2].text \in CycleTexts
    /\ call[2].cell \in referenced_cells(call[2].text)
           \cup UNION {referenced_cells(u) : u \in reentered_texts(call[2].text)}

\* the store without the cell k
Without(items, k) == [j \in DOMAIN items \ {k} |-> items[j]]

TextMaxRef == <<"=","M","A","X","(","A","2",","," ","B","1",")">>
TextCountAll == <<"=","C","O","U","N","T","(","A","1",":","B","2",")">>
TextSumRef == <<"=","S","U","M","(","B","1",","," ","1",")">>
TextCountCol == <<"=","C","O","U","N","T","(","A","1",":","A","2",")">>

OrderTexts == {TextMaxRef, TextCountAll, TextSum, TextFive}

OrderStores ==
    {StoreShown((A1 :> v1) @@ (A2 :> v2) @@ (B1 :> v3)) :
        v1 \in {<<"5">>, TextSumCol},
        v2 \in {<<"4">>, <<"x">>, TextSumRef},
        v3 \in {<<"-","3">>, TextSumCol, TextCountCol}}

\* the orders in which a dict of the three cells can hold them
Orders == {o \in [1..3 -> {A1, A2, B1}] : \A i, j \in 1..3 : o[i] = o[j] => i = j}

\* the body of the loop of recalc_all for the cell under key k
recalc_cell(items, k) ==
    IF StartsWith(items[k].value, "=")
    THEN [items EXCEPT ![k].text = evaluate_formula_str(items, items[k].value)]
    ELSE items

\* for key, item in self.hex_items.items(): the cells are met in the order
\* keys and each display is written before the next cell is evaluated
RECURSIVE recalc_all_in_order(_, _)
recalc_all_in_order(items, keys) ==
    IF keys = <<>> THEN items
    ELSE recalc_all_in_order(recalc_cell(items, Head(keys)), Tail(keys))

InitOrder ==
    /\ hex_items \in OrderStores
    /\ call \in {<<"input", [cell |-> k, text |-> t, order |-> o], <<>>>> :
                    k \in {A1, B1}, t \in OrderTexts, o \in Orders}
    /\ InitRest

\* the text is written to the cell and the sweep runs in the order drawn;
\* call[3] keeps the store as the sweep found it
SetValueSweep ==
    /\ call[1] = "input"
    /\ \E st \in {set_value(State, Ref(call[2].cell), call[2].text)} :
           /\ hex_items' = recalc_all_in_order(st.hex_items, call[2].order)
           /\ lost' = st.lost
           /\ call' = <<"recalc_all", call[2], st.hex_items>>
    /\ UNCHANGED <<headers, orphans, current_editor, drag_active, drag_start_item,
                   fill_selection, current_item, last, steps>>

\* a second sweep, in any order; call[3] keeps the store as it found it
SweepAgain ==
    /\ call[1] = "recalc_all"
    /\ \E o \in Orders :
           /\ hex_items' = recalc_all_in_order(hex_items, o)
           /\ call' = <<"recalc_all_again", [call[2] EXCEPT !.order = o], hex_items>>
    /\ UNCHANGED <<headers, orphans, current_editor, drag_active, drag_start_item,
                   fill_selection, current_item, lost, last, steps>>

NextOrder == SetValueSweep \/ SweepAgain

SpecOrder == InitOrder /\ [][NextOrder]_vars

\* the cells of the store whose raw value is not a formula
PlainCells(items) ==
    [k \in {j \in DOMAIN items : ~StartsWith(items[j].value, "=")} |-> items[k]]

\* the store with every display blanked
Undisplayed(items) == [k \in DOMAIN items |-> [items[k] EXCEPT !.text = <<>>]]

\* C27: evaluation reads raw values only, never a display: the display of a
\* formula cell after a sweep is what its formula yields over the cells
\* that hold no formula (a referenced formula cell contributes nothing) and
\* over the store with every display blanked; the sweep leaves the same
\* store whatever the order in which it meets the cells; it changes no raw
\* value; and a second sweep, in any order, changes no display.
C27_SweepReadsRawValues ==
    /\ call[1] = "recalc_all" =>
           /\ \A o \in Orders : recalc_all_in_order(call[3], o) = hex_items
           /\ DOMAIN hex_items = DOMAIN call[3]
           /\ \A k \in DOMAIN hex_items :
                  /\ hex_items[k].value = call[3][k].value
                  /\ StartsWith(hex_items[k].value, "=") =>
                         /\ hex_items[k].text =
                                evaluate_formula_str(PlainCells(call[3]), hex_items[k].value)
                         /\ hex_items[k].text =
                                evaluate_formula_str(Undisplayed(call[3]), hex_items[k].value)
    /\ call[1] = "recalc_all_again" => hex_items = call[3]

\* =MAX(A2, B1) was written to A1 while B1 held =SUM(A1:A2): after the
\* sweep A1 displays "4", the value of A2 alone, and so does B1; a second
\* sweep met the cells in the order B1, A2, A1
C27_Witness ==
    /\ call[1] = "recalc_all_again"
    /\ call[2].cell = A1
    /\ call[2].text = TextMaxRef
    /\ call[2].order = <<B1, A2, A1>>
    /\ hex_items[A2].value = <<"4">>
    /\ hex_items[B1].value = TextSumCol
    /\ hex_items[B1].text = <<"4">>
    /\ hex_items[A1].text = <<"4">>

====
